---------------------------- MODULE Spec2Model ----------------------------
(* Streaming function-call extraction of QwenRenderer                      *)
(* (maga_transformer/openai/renderers/qwen_renderer.py).                   *)
(*                                                                         *)
(* A text is a sequence of one-character strings; a token id is a model    *)
(* value (a string naming the token).  Python's None is the empty tuple    *)
(* and Some(x) is <<x>> for the optional fields of an event; the optional  *)
(* finish reason is one of the strings "None", "stop", "length",           *)
(* "function_call".                                                        *)
EXTENDS Integers, Sequences, FiniteSets, TLC

-----------------------------------------------------------------------------
(* Python string primitives, computed as CPython computes them.            *)

NL == "\n"

\* characters removed by str.strip() with no argument
Whitespace == {" ", NL, "\t", "\r"}

Min(a, b) == IF a < b THEN a ELSE b

Max(a, b) == IF a > b THEN a ELSE b

\* a slice bound as Python normalises it: negative counts from the end,
\* then clamped to 0..len
SliceIndex(n, len) == IF n < 0 THEN Max(n + len, 0) ELSE Min(n, len)

\* s[a:b]
Slice(s, a, b) == SubSeq(s, SliceIndex(a, Len(s)) + 1, SliceIndex(b, Len(s)))

\* s[a:]
SliceFrom(s, a) == Slice(s, a, Len(s))

\* s[:b]
SliceTo(s, b) == Slice(s, 0, b)

\* s.startswith(p) at offset i (0-based)
MatchAt(s, p, i) == /\ i >= 0
                    /\ i + Len(p) <= Len(s)
                    /\ \A k \in 1..Len(p) : s[i + k] = p[k]

\* s.endswith(p)
EndsWith(s, p) == MatchAt(s, p, Len(s) - Len(p))

\* s.rfind(p): the highest 0-based index of an occurrence, -1 when none
RFind(s, p) ==
    LET hits == {i \in 0..(Len(s) - Len(p)) : MatchAt(s, p, i)}
    IN  IF hits = {} THEN -1 ELSE CHOOSE i \in hits : \A j \in hits : j <= i

\* p in s
Contains(s, p) == RFind(s, p) >= 0

\* s.lstrip(chars)
LStrip(s, chars) ==
    LET keep == {i \in 1..Len(s) : s[i] \notin chars}
    IN  IF keep = {} THEN <<>>
        ELSE SubSeq(s, CHOOSE i \in keep : \A j \in keep : i <= j, Len(s))

\* s.rstrip(chars)
RStrip(s, chars) ==
    LET dropped == {i \in 1..Len(s) : \A j \in i..Len(s) : s[j] \in chars}
    IN  SubSeq(s, 1, Len(s) - Cardinality(dropped))

\* s.strip(chars)
Strip(s, chars) == RStrip(LStrip(s, chars), chars)

\* s.replace(w, ""): non-overlapping occurrences removed left to right
RECURSIVE RemoveAll(_, _)
RemoveAll(s, w) ==
    LET hits == {i \in 0..(Len(s) - Len(w)) : MatchAt(s, w, i)}
    IN  IF w = <<>> \/ hits = {} THEN s
        ELSE LET first == CHOOSE i \in hits : \A j \in hits : i <= j
             IN  SubSeq(s, 1, first)
                 \o RemoveAll(SubSeq(s, first + Len(w) + 1, Len(s)), w)

RECURSIVE Flatten(_)
Flatten(ss) == IF ss = <<>> THEN <<>> ELSE Head(ss) \o Flatten(Tail(ss))

\* the characters of a string literal, as a text
Chars(s) == [i \in 1..Len(s) |-> SubSeq(s, i, i)]

\* s.startswith(p)
StartsWith(s, p) == MatchAt(s, p, 0)

-----------------------------------------------------------------------------
(* Template constants of the ReAct convention.                             *)

\* "\nAction:"
NlActionTag == <<NL, "A", "c", "t", "i", "o", "n", ":">>

\* "Action:"
ActionTag == Tail(NlActionTag)

\* "\nAction Input:"
NlActionInputTag ==
    <<NL, "A", "c", "t", "i", "o", "n", " ", "I", "n", "p", "u", "t", ":">>

\* "\nObservation:"
NlObservationTag ==
    <<NL, "O", "b", "s", "e", "r", "v", "a", "t", "i", "o", "n", ":">>

\* the replacement character U+FFFD of an incomplete multi-byte decode
FFFD == "U+FFFD"

None == "None"

-----------------------------------------------------------------------------
(* The tokenizer and the renderer configuration.                           *)

\* self.eos_token_id
eos_token_id == "EOS"

\* the begin-of-turn and end-of-turn markers, as texts
im_start == Chars("<|im_start|>")

im_end == Chars("<|im_end|>")

\* tokenizer.im_start_id, tokenizer.im_end_id
im_start_id == "<|im_start|>"

im_end_id == "<|im_end|>"

\* the token of one ordinary character
CharToken(c) == "'" \o c

\* the text of one token
TokenText(t) ==
    CASE t = "P"           -> <<"?">>
      [] t = "EOS"         -> <<>>
      [] t = "Hello"       -> <<"H", "e", "l", "l", "o">>
      [] t = "SP"          -> <<" ">>
      [] t = "NLAction"    -> <<NL, "A", "c", "t", "i", "o", "n">>
      [] t = "Colon"       -> <<":">>
      [] t = "Name"        -> <<" ", "f">>
      [] t = "ActionInput" -> NlActionInputTag
      [] t = "Args"        -> <<" ", "{", "}">>
      [] t = "NL"          -> <<NL>>
      [] t = "Observation" -> Tail(NlObservationTag)
      [] t = im_start_id   -> im_start
      [] t = im_end_id     -> im_end
      [] OTHER             -> <<SubSeq(t, 2, Len(t))>>

\* self.tokenizer.decode(ids): the texts of the tokens, concatenated
RECURSIVE decode(_)
decode(ids) ==
    IF ids = <<>> THEN <<>>
    ELSE IF Len(ids) = 1 THEN TokenText(ids[1])
    ELSE decode(SubSeq(ids, 1, Len(ids) \div 2))
         \o decode(SubSeq(ids, Len(ids) \div 2 + 1, Len(ids)))

\* the special token whose text starts at 0-based offset i of the text,
\* "" when none does
SpecialAt(text, i) ==
    IF MatchAt(text, im_start, i) THEN im_start_id
    ELSE IF MatchAt(text, im_end, i) THEN im_end_id
    ELSE ""

\* offset i lies inside the text of a special token that starts before it
InsideSpecial(text, i) ==
    \E j \in Max(0, i - Len(im_start))..(i - 1) :
        \/ MatchAt(text, im_start, j) /\ i < j + Len(im_start)
        \/ MatchAt(text, im_end, j) /\ i < j + Len(im_end)

\* self.tokenizer.encode(text): one token per character; the text of a
\* special token becomes that token unless allowed_special is empty
encode(text, allowed_special) ==
    LET IsToken(t) == t # ""
    IN  SelectSeq([n \in 1..Len(text) |->
                      IF allowed_special /\ SpecialAt(text, n - 1) # ""
                      THEN SpecialAt(text, n - 1)
                      ELSE IF allowed_special /\ InsideSpecial(text, n - 1)
                      THEN ""
                      ELSE CharToken(text[n])],
                  IsToken)

\* output_ids_tensor[output_ids_tensor != self.eos_token_id].tolist()
WithoutEos(ids) ==
    LET NotEos(t) == t # eos_token_id
    IN  SelectSeq(ids, NotEos)

\* self.stop_word_ids_list of the renderer parameters
stop_word_ids_list == <<>>

\* self._remove_stop_word_ids(output_ids): a configured stop-word id
\* sequence at the end of the output is cut off
RECURSIVE RemoveStopWordIds(_, _)
RemoveStopWordIds(output_ids, words) ==
    IF words = <<>> THEN output_ids
    ELSE LET w == Head(words)
             cut == IF w # <<>> /\ Len(w) <= Len(output_ids)
                       /\ SubSeq(output_ids, Len(output_ids) - Len(w) + 1,
                                 Len(output_ids)) = w
                    THEN SubSeq(output_ids, 1, Len(output_ids) - Len(w))
                    ELSE output_ids
         IN  RemoveStopWordIds(cut, Tail(words))

remove_stop_word_ids(output_ids) ==
    RemoveStopWordIds(output_ids, stop_word_ids_list)

\* for stop_word in self.stop_words_list:
\*     output_str = output_str.replace(stop_word, "")
RECURSIVE StripStopWords(_, _)
StripStopWords(output_str, words) ==
    IF words = <<>> THEN output_str
    ELSE StripStopWords(RemoveAll(output_str, Head(words)), Tail(words))

\* self._check_finish_reason(output_ids): the reason the generation loop
\* supplied with its final step, passed through unchanged
check_finish_reason(output_ids, supplied) == supplied

\* _process_output_ids_tensor(input_length, output_ids_tensor, finished)
\* -> ProcessedOutput(output_str, output_length, finish_reason)
process_output_ids_tensor(input_length, ids_tensor, finished, supplied, stop_words) ==
    LET output_ids == WithoutEos(ids_tensor)
        reason     == IF finished
                      THEN check_finish_reason(output_ids, supplied)
                      ELSE None
        sliced     == SliceFrom(output_ids, input_length)
        decoded    == Strip(decode(remove_stop_word_ids(sliced)), {FFFD})
    IN  [output_str          |-> StripStopWords(decoded, stop_words),
         output_token_length |-> Len(sliced),
         finish_reason       |-> reason]

-----------------------------------------------------------------------------
(* _parse_function_response(response): None is <<>>, a DeltaMessage with   *)
(* its function call is <<[content, name, arguments]>>.                    *)

\* the lower bound on i left out
HasCallSpan_NoLowerBound(i, j) == i < j

\* line 268: if 0 <= i < j
HasCallSpan(i, j) == 0 <= i /\ i < j

parse_function_response(response) ==
    LET i == RFind(response, NlActionTag)
        j == RFind(response, NlActionInputTag)
        k0 == RFind(response, NlObservationTag)
        found == HasCallSpan(i, j)
        resp == IF found /\ k0 < j
                THEN RStrip(response, Whitespace) \o NlObservationTag
                ELSE response
        k == RFind(resp, NlObservationTag)
        func_name == IF found
                     THEN Strip(Slice(resp, i + Len(NlActionTag), j), Whitespace)
                     ELSE <<>>
        func_args == IF found
                     THEN Strip(Slice(resp, j + Len(NlActionInputTag), k),
                                Whitespace)
                     ELSE <<>>
    IN  IF func_name # <<>>
        THEN <<[content   |-> SliceTo(resp, i),
                name      |-> func_name,
                arguments |-> func_args]>>
        ELSE <<>>

-----------------------------------------------------------------------------
(* render_response_stream: one request, driven by the generation loop.     *)

\* the generation steps modelled per request
MaxSteps == 5

\* the rendered prompt, whose length is input_token_length
input_ids == <<"P">>

input_token_length == Len(input_ids)

\* the tokens one generation step adds to the sequence produced so far:
\* "Hello", " ", "\nAction", ":", " f\nAction Input: {}\n" (the newline is
\* what the model writes before the stop word), "Observation:", and the
\* end-of-sequence token
Chunks == {<<"Hello">>, <<"SP">>, <<"NLAction">>, <<"Colon">>,
           <<"Name", "ActionInput", "Args", "NL">>, <<"Observation">>,
           <<"EOS">>}

VARIABLES
    output,                    \* the GenerateOutput of the latest step
    nsteps,                    \* generation steps consumed so far
    pc,                        \* "loop": in the async for; "done": returned
    index,
    output_string,
    output_length,
    responded_string,
    responded_length,
    output_token_length,
    finish_reason,
    generating_function_call,
    events                     \* the StreamResponseObjects yielded so far

\* render_response_stream: two requests served by one renderer
VARIABLES
    streams                    \* the generators of the two requests

\* render_chat: one request, rendered synchronously
VARIABLES
    request,                   \* the ChatCompletionRequest: messages, functions
    chat_pc,                   \* "idle", "request", "parsed", "rendered", "raised"
    normalized,                \* parse_messages: `messages` after the loop
    query,                     \* render_chat: query
    history,                   \* render_chat: history
    raised,                    \* the exception that ended the call, if any
    rendered,                  \* the prompt text and the RenderedInputs
    renderer_params,           \* the RendererParams of the renderer
    stop_words_list,           \* self.stop_words_list of the renderer
    result,                    \* what a function called on its own returned
    call,                      \* the arguments of a call of make_context
    caller                     \* the requests the caller holds, and what it
                               \* got back for them

locals == <<output, nsteps, pc, index, output_string,
            output_length, responded_string, responded_length,
            output_token_length, finish_reason, generating_function_call,
            events>>

stream_vars == <<output, nsteps, pc, index, output_string,
                 output_length, responded_string, responded_length,
                 output_token_length, finish_reason, generating_function_call,
                 events, streams>>

chat_vars == <<request, chat_pc, normalized, query, history, raised, rendered,
               renderer_params, stop_words_list, result, call, caller>>

vars == <<output, nsteps, pc, index, output_string,
          output_length, responded_string, responded_length,
          output_token_length, finish_reason, generating_function_call,
          events, request, chat_pc, normalized, query, history, raised,
          rendered, renderer_params, stop_words_list, result, call, caller,
          streams>>

\* UsageInfo(prompt_tokens, total_tokens, completion_tokens)
UsageInfo(token_length) ==
    <<[prompt_tokens     |-> input_token_length,
       total_tokens      |-> input_token_length + token_length,
       completion_tokens |-> token_length]>>

\* lines 322-329: the role announcement, yielded without usage
RoleEvent(idx) ==
    [index |-> idx, role |-> <<"assistant">>, content |-> <<>>,
     function_call |-> <<>>, finish_reason |-> None, usage |-> <<>>]

\* lines 349-361 and 391-403: a delta carrying content only
ContentEvent(idx, text, token_length) ==
    [index |-> idx, role |-> <<>>, content |-> <<text>>,
     function_call |-> <<>>, finish_reason |-> None,
     usage |-> UsageInfo(token_length)]

\* lines 372-383: the delta of a parsed function call
FunctionEvent(idx, message, reason, token_length) ==
    [index |-> idx, role |-> <<>>, content |-> <<message.content>>,
     function_call |-> <<[name |-> message.name,
                          arguments |-> message.arguments]>>,
     finish_reason |-> reason, usage |-> UsageInfo(token_length)]

\* lines 405-418: the terminal delta
TerminalEvent(idx, reason, token_length) ==
    [index |-> idx, role |-> <<>>, content |-> << <<>> >>,
     function_call |-> <<>>, finish_reason |-> reason,
     usage |-> UsageInfo(token_length)]

\* line 321: if output_token_length == 0
AnnounceRole(token_length) == token_length = 0

\* the marker compared without its newline
StartsFunctionCall_NoNewline(text) == EndsWith(text, ActionTag)

\* line 337: output_string.endswith("\nAction:")
StartsFunctionCall(text) == EndsWith(text, NlActionTag)

\* line 344: output_length > responded_length + len('\nAction:')
HasNewContent(out_len, resp_len) == out_len > resp_len + Len(NlActionTag)

\* lines 345-346: output_length - len('Action:')
DeltaEnd(out_len) == out_len - Len(ActionTag)

\* the lookahead of the loop applied to the final flush as well
HasUnflushed_Lookahead(resp_len, out_len) ==
    out_len > resp_len + Len(NlActionTag)

\* line 389: responded_length < output_length
HasUnflushed(resp_len, out_len) == resp_len < out_len

\* line 331: the call leaves `finished` at its default
FinishedArgument(step_finished) == FALSE

\* the buffering check left out
KeepsBuffering_Dropped(latch) == FALSE

\* lines 341-342: if (generating_function_call): continue
KeepsBuffering(latch) == latch

\* responded_length is left where the last content delta put it
RespondedAfterCall_Unchanged(resp_len, out_len) == resp_len

\* line 371: responded_length = output_length
RespondedAfterCall(resp_len, out_len) == out_len

\* the reason left as the loop determined it
CallReason_Kept(reason) == reason

\* line 369: finish_reason = FinisheReason.function_call
CallReason(reason) == "function_call"

\* the default left out
DefaultReason_Missing(reason) == reason

\* lines 385-387: the default finish reason
DefaultReason(reason) == IF reason = None THEN "stop" ELSE reason

\* lines 311-318: the locals of a generator that has not started
InitFrame ==
    [output |-> [output_ids |-> input_ids, finished |-> FALSE,
                 finish_reason |-> None],
     nsteps |-> 0, pc |-> "loop", index |-> 0, output_string |-> <<>>,
     output_length |-> 0, responded_string |-> <<>>, responded_length |-> 0,
     output_token_length |-> 0, finish_reason |-> None,
     generating_function_call |-> FALSE, events |-> <<>>]

\* no second request is served
NoStreams ==
    [frames |-> <<>>, last |-> InitFrame, steps |-> <<>>, ended |-> <<>>,
     running |-> 0]

\* lines 311-318: the locals of a response stream that has not started
LocalsInit ==
    /\ output = [output_ids |-> input_ids, finished |-> FALSE,
                 finish_reason |-> None]
    /\ nsteps = 0
    /\ pc = "loop"
    /\ index = 0
    /\ output_string = <<>>
    /\ output_length = 0
    /\ responded_string = <<>>
    /\ responded_length = 0
    /\ output_token_length = 0
    /\ finish_reason = None
    /\ generating_function_call = FALSE
    /\ events = <<>>

\* one response stream, not started
StreamInit == LocalsInit /\ streams = NoStreams

\* RendererParams(max_seq_len=...) of the renderer under test
max_seq_len == 1024

\* nothing is known of the caller
NoCaller == [objects |-> <<>>, submitted |-> <<>>, slot |-> 0, outputs |-> <<>>]

\* no render_chat call is in progress
NoRequest ==
    /\ request = [messages |-> <<>>, functions |-> <<>>]
    /\ chat_pc = "idle"
    /\ normalized = <<>>
    /\ query = <<>>
    /\ history = <<>>
    /\ raised = <<>>
    /\ rendered = <<>>
    /\ renderer_params = [max_seq_len |-> max_seq_len]
    /\ stop_words_list = <<>>
    /\ result = <<>>
    /\ call = <<>>
    /\ caller = NoCaller

Init == StreamInit /\ NoRequest

\* lines 320-361: the generation loop yields its next step and the body of
\* the async for runs on it
Update(chunk, step_finished, supplied) ==
    /\ pc = "loop"
    /\ ~output.finished
    /\ nsteps < MaxSteps
    /\ output' = [output_ids    |-> output.output_ids \o chunk,
                  finished      |-> step_finished,
                  finish_reason |-> supplied]
    /\ nsteps' = nsteps + 1
    /\ \E processed_output \in
            {process_output_ids_tensor(input_token_length, output'.output_ids,
                                       FinishedArgument(output'.finished),
                                       output'.finish_reason, stop_words_list)} :
          /\ output_string' = Strip(processed_output.output_str, Whitespace)
          /\ output_length' = Len(processed_output.output_str)
          /\ finish_reason' = processed_output.finish_reason
          /\ output_token_length' = processed_output.output_token_length
    /\ \E announced \in {IF AnnounceRole(output_token_length)
                         THEN <<RoleEvent(index)>> ELSE <<>>} :
          IF StartsFunctionCall(output_string')
          THEN /\ generating_function_call' = TRUE
               /\ events' = events \o announced
               /\ UNCHANGED <<responded_string, responded_length>>
          ELSE IF KeepsBuffering(generating_function_call)
          THEN /\ events' = events \o announced
               /\ UNCHANGED <<generating_function_call, responded_string,
                              responded_length>>
          ELSE IF HasNewContent(output_length', responded_length)
          THEN /\ responded_string' =
                     SliceTo(output_string', DeltaEnd(output_length'))
               /\ responded_length' = Len(responded_string')
               /\ events' = events \o announced \o
                    <<ContentEvent(index,
                                   Slice(output_string', responded_length,
                                         DeltaEnd(output_length')),
                                   output_token_length')>>
               /\ UNCHANGED generating_function_call
          ELSE /\ events' = events \o announced
               /\ UNCHANGED <<generating_function_call, responded_string,
                              responded_length>>
    /\ UNCHANGED <<pc, index, streams>>
    /\ UNCHANGED chat_vars

\* lines 363-418: the generation loop is exhausted; the code after the
\* async for runs to the end of the generator
StreamEnd ==
    /\ pc = "loop"
    /\ \E function_message \in
            {IF generating_function_call
             THEN parse_function_response(
                      SliceFrom(output_string, responded_length))
             ELSE <<>>} :
          LET parsed == function_message # <<>>
              reason1 == IF parsed THEN CallReason(finish_reason)
                         ELSE finish_reason
              called == IF parsed
                        THEN <<FunctionEvent(index, function_message[1],
                                             reason1, output_token_length)>>
                        ELSE <<>>
              reason2 == DefaultReason(reason1)
              resp_length ==
                  IF parsed
                  THEN RespondedAfterCall(responded_length, output_length)
                  ELSE responded_length
              flush == HasUnflushed(resp_length, output_length)
              index2 == IF flush THEN index + 1 ELSE index
          IN  /\ finish_reason' = reason2
              /\ responded_string' =
                     IF parsed THEN output_string ELSE responded_string
              /\ responded_length' = resp_length
              /\ index' = index2
              /\ events' = events \o called \o
                   (IF flush
                    THEN <<ContentEvent(index2,
                                        SliceFrom(output_string, resp_length),
                                        output_token_length)>>
                    ELSE <<>>) \o
                   <<TerminalEvent(index2 + 1, reason2, output_token_length)>>
    /\ pc' = "done"
    /\ UNCHANGED <<output, nsteps, output_string, output_length,
                   output_token_length, generating_function_call, streams>>
    /\ UNCHANGED chat_vars

\* a step that is not the last one
Step == \E chunk \in Chunks : Update(chunk, FALSE, None)

\* the last step: generation stopped on its own, or ran out of length
LastStep == \E chunk \in Chunks, supplied \in {None, "length"} :
                Update(chunk, TRUE, supplied)

Next == Step \/ LastStep \/ StreamEnd

Spec == Init /\ [][Next]_vars

\* the step on which the async for ends: the step StreamEnd takes
LoopExit == pc = "loop" /\ pc' = "done"

\* the generation loop yields finitely many steps, so the async for ends
\* and the code after it, which has no loop and awaits nothing, runs
FairSpec == Spec /\ WF_pc(LoopExit)

TypeOK ==
    /\ pc \in {"loop", "done"}
    /\ nsteps \in 0..MaxSteps
    /\ generating_function_call \in BOOLEAN
    /\ finish_reason \in {None, "stop", "length", "function_call"}

-----------------------------------------------------------------------------
(* parse_messages: the conversation normaliser.  A message is a record     *)
(* [role, content, function_call]; a content of None and the empty text   *)
(* are both <<>> (line 194 reads `content or ""`), and function_call is    *)
(* <<>> for None and <<[name, arguments]>> otherwise.  An exception is     *)
(* <<[kind, message]>>, and <<>> when the call returned.                   *)

\* the characters of the model that lie in U+4E00..U+9FFF
CJK == {"U+6211", "U+4F1A", "U+4F5C", "U+7B54", "U+4E86", "U+53EF", "U+4EE5", "U+4F7F", "U+7528"}

\* line 209: the text has a run of characters in U+4E00..U+9FFF
HasZh(text) == \E i \in 1..Len(text) : text[i] \in CJK

\* line 154
default_system == Chars("You are a helpful assistant.")

\* line 21: TOOL_DESC.format(...)
TOOL_DESC(name_for_model, name_for_human, description_for_model, parameters) ==
    name_for_model \o Chars(": Call this tool to interact with the ")
    \o name_for_human \o Chars(" API. What is the ") \o name_for_human
    \o Chars(" API useful for? ") \o description_for_model
    \o Chars(" Parameters: ") \o parameters

\* lines 23-38: REACT_INSTRUCTION.format(...)
REACT_INSTRUCTION(tools_text, tools_name_text) ==
    Chars("Answer the following questions as best you can. You have access to the following APIs:\n\n")
    \o tools_text
    \o Chars("\n\nUse the following format:\n\nQuestion: the input question you must answer\nThought: you should always think about what to do\nAction: the action to take, should be one of [")
    \o tools_name_text
    \o Chars("]\nAction Input: the input to the action\nObservation: the result of the action\n... (this Thought/Action/Action Input/Observation can be repeated zero or more times)\nThought: I now know the final answer\nFinal Answer: the final answer to the original input question\n\nBegin!")

\* lines 40-43: DUMMY_THOUGHT[lang]
DUMMY_THOUGHT(lang) ==
    IF lang = "en"
    THEN Chars("\nThought: I now know the final answer.\nFinal answer: ")
    ELSE Chars("\nThought: ")
         \o <<"U+6211", "U+4F1A", "U+4F5C", "U+7B54", "U+4E86", "U+3002">>
         \o Chars("\nFinal answer: ")

\* the English preamble whatever the previous message holds
ThoughtLanguage_English(last_msg_has_zh) == "en"

\* line 212: "zh" if last_msg_has_zh else "en"
ThoughtLanguage(last_msg_has_zh) == IF last_msg_has_zh THEN "zh" ELSE "en"

\* DUMMY_THOUGHT.values(), in the order of the dict
DummyThoughts == <<DUMMY_THOUGHT("en"), DUMMY_THOUGHT("zh")>>

\* line 45: _TEXT_COMPLETION_CMD = object(), a value that is no text
TEXT_COMPLETION_CMD == <<"_TEXT_COMPLETION_CMD">>

\* json.dumps(value, ensure_ascii=False) of the parameter schemas of the
\* model
json_dumps(value) ==
    CASE value = "EmptyObject" -> Chars("{}")
      [] value = "Null"        -> Chars("null")

\* a or b, for texts
OrElse(a, b) == IF a # <<>> THEN a ELSE b

\* sep.join(texts)
RECURSIVE Join(_, _)
Join(texts, sep) ==
    IF texts = <<>> THEN <<>>
    ELSE IF Len(texts) = 1 THEN texts[1]
    ELSE texts[1] \o sep \o Join(Tail(texts), sep)

\* the text is taken as it is
Trim_None(text) == text

\* text.lstrip("\n").rstrip()
Trim(text) == RStrip(LStrip(text, {NL}), Whitespace)

\* lines 166-179: the descriptor line of one function
ToolText(func_info) ==
    TOOL_DESC(OrElse(func_info.name_for_model, func_info.name),
              OrElse(func_info.name_for_human, func_info.name),
              OrElse(func_info.description_for_model, func_info.description),
              json_dumps(func_info.parameters))

\* lines 162-188: the tool instructions folded into the system text
FoldTools(system, functions) ==
    IF functions = <<>> THEN system
    ELSE Trim(system \o <<NL, NL>> \o
              REACT_INSTRUCTION(
                  Join([n \in 1..Len(functions) |-> ToolText(functions[n])],
                       <<NL, NL>>),
                  Join([n \in 1..Len(functions) |->
                           OrElse(functions[n].name_for_model,
                                  functions[n].name)],
                       Chars(", "))))

\* lines 155-160: the system text taken from a leading system message
ExtractSystem(messages) ==
    IF messages[1].role = "system" /\ messages[1].content # default_system
    THEN messages[1].content
    ELSE <<>>

\* lines 156-157: messages.pop(0) of a leading system message
PopSystem(messages) ==
    IF messages[1].role = "system" THEN Tail(messages) ELSE messages

ChatMessage(role, content) ==
    [role |-> role, content |-> content, function_call |-> <<>>]

Raise(kind, message) == <<[kind |-> kind, message |-> message]>>

\* messages[-1].content += text
AppendToLast(messages, text) ==
    [messages EXCEPT ![Len(messages)].content = @ \o text]

\* lines 216-219: the thought synthesized for a call without content
SynthesizedThought(f_name, last_msg_has_zh) ==
    IF last_msg_has_zh
    THEN Chars("Thought: ") \o <<"U+6211", "U+53EF", "U+4EE5", "U+4F7F", "U+7528">>
         \o Chars(" ") \o f_name \o Chars(" API") \o <<"U+3002">>
    ELSE Chars("Thought: I can use ") \o f_name \o Chars(".")

\* the name and the arguments of the call are written in each other's place
AssistantText_Swapped(m, last_msg, functions) ==
    IF m.function_call = <<>>
    THEN IF functions # <<>>
         THEN DUMMY_THOUGHT(ThoughtLanguage(HasZh(last_msg))) \o m.content
         ELSE m.content
    ELSE <<NL>>
         \o (IF m.content = <<>>
             THEN SynthesizedThought(m.function_call[1].name, HasZh(last_msg))
             ELSE m.content)
         \o Chars("\nAction: ") \o m.function_call[1].arguments
         \o Chars("\nAction Input: ") \o m.function_call[1].name

\* lines 208-220: the text of an assistant message
AssistantText(m, last_msg, functions) ==
    IF m.function_call = <<>>
    THEN IF functions # <<>>
         THEN DUMMY_THOUGHT(ThoughtLanguage(HasZh(last_msg))) \o m.content
         ELSE m.content
    ELSE <<NL>>
         \o (IF m.content = <<>>
             THEN SynthesizedThought(m.function_call[1].name, HasZh(last_msg))
             ELSE m.content)
         \o Chars("\nAction: ") \o m.function_call[1].name
         \o Chars("\nAction Input: ") \o m.function_call[1].arguments

\* a message of any other role is taken as a user message
IsUserRole_OrOther(role) == role \notin {"function", "assistant"}

\* line 227: elif role == "user"
IsUserRole(role) == role = "user"

\* a function result is accepted after any message
NoAssistantBefore_EmptyOnly(messages) == messages = <<>>

\* line 196: the function result has no assistant message to continue
NoAssistantBefore(messages) ==
    messages = <<>> \/ messages[Len(messages)].role # "assistant"

\* the cue is never appended
IsLastMessage_Never(m_idx, n_messages) == FALSE

\* line 201: if m_idx == len(_messages) - 1
IsLastMessage(m_idx, n_messages) == m_idx = n_messages - 1

\* every assistant message opens a turn
OpensTurn_Always(last_role) == TRUE

\* line 221: if messages[-1].role == "user"
OpensTurn(last_role) == last_role = "user"

\* lines 193-232: the body of the normalization loop, on message m at
\* 0-based position m_idx of n_messages
NormalizeMessage(messages, m, m_idx, n_messages, functions) ==
    IF m.role = "function"
    THEN IF NoAssistantBefore(messages)
         THEN [raised |-> Raise("ValueError", "Invalid request: Expecting role assistant before role function."),
               messages |-> messages]
         ELSE [raised |-> <<>>,
               messages |->
                   AppendToLast(messages,
                                Chars("\nObservation: ") \o m.content
                                \o (IF IsLastMessage(m_idx, n_messages)
                                    THEN Chars("\nThought:") ELSE <<>>))]
    ELSE IF m.role = "assistant"
    THEN IF messages = <<>>
         THEN [raised |-> Raise("ValueError", "Invalid request: Expecting role user before role assistant."),
               messages |-> messages]
         ELSE [raised |-> <<>>,
               messages |->
                   IF OpensTurn(messages[Len(messages)].role)
                   THEN Append(messages,
                               ChatMessage("assistant",
                                   Trim(AssistantText(m, messages[Len(messages)].content,
                                                      functions))))
                   ELSE AppendToLast(messages,
                            AssistantText(m, messages[Len(messages)].content,
                                          functions))]
    ELSE IF IsUserRole(m.role)
    THEN [raised |-> <<>>,
          messages |-> Append(messages, ChatMessage("user", Trim(m.content)))]
    ELSE [raised |-> Raise("ValueError", "Invalid request: Incorrect role."),
          messages |-> messages]

\* lines 190-232: the iterations m_idx .. stop - 1 (0-based) of the
\* normalization loop; the loop ends when an iteration raises
RECURSIVE NormalizeFrom(_, _, _, _, _)
NormalizeFrom(raw_messages, m_idx, stop, done, functions) ==
    IF done.raised # <<>> \/ m_idx >= stop THEN done
    ELSE NormalizeFrom(raw_messages, m_idx + 1, stop,
                       NormalizeMessage(done.messages, raw_messages[m_idx + 1],
                                        m_idx, Len(raw_messages), functions),
                       functions)

\* lines 247-250: a dummy thought in front of a call is taken off again
RECURSIVE StripDummyThoughts(_, _)
StripDummyThoughts(bot_msg, thoughts) ==
    IF thoughts = <<>> THEN bot_msg
    ELSE LET t == LStrip(Head(thoughts), {NL})
         IN  StripDummyThoughts(
                 IF StartsWith(bot_msg, t) /\ Contains(bot_msg, Chars("\nAction: "))
                 THEN SliceFrom(bot_msg, Len(t)) ELSE bot_msg,
                 Tail(thoughts))

\* no turn of the history receives the system text
IsLastTurn_Never(i, n_messages) == FALSE

\* line 244: the turn that receives the system text
IsLastTurn(i, n_messages) == i = n_messages - 2

\* the system text is used again after it was placed
ConsumedSystem_Kept(system) == system

\* line 246: system = ""
ConsumedSystem(system) == <<>>

\* lines 239-255: the history loop from position i (0-based) on; acc is
\* [raised, history, system]
RECURSIVE HistoryFrom(_, _, _)
HistoryFrom(messages, i, acc) ==
    IF acc.raised # <<>> \/ i >= Len(messages) THEN acc
    ELSE IF messages[i + 1].role # "user"
    THEN [acc EXCEPT !.raised = Raise("ValueError", "Invalid request: Expecting exactly one user (or function) role before every assistant role.")]
    ELSE IF i + 1 >= Len(messages)
    THEN [acc EXCEPT !.raised = Raise("IndexError", "list index out of range")]
    ELSE IF messages[i + 2].role # "assistant"
    THEN [acc EXCEPT !.raised = Raise("ValueError", "Invalid request: Expecting exactly one user (or function) role before every assistant role.")]
    ELSE HistoryFrom(messages, i + 2,
             [raised  |-> <<>>,
              history |-> Append(acc.history,
                  <<IF acc.system # <<>> /\ IsLastTurn(i, Len(messages))
                    THEN acc.system \o Chars("\n\nQuestion: ")
                         \o Trim(messages[i + 1].content)
                    ELSE Trim(messages[i + 1].content),
                    StripDummyThoughts(Trim(messages[i + 2].content),
                                       DummyThoughts)>>),
              system  |-> IF acc.system # <<>> /\ IsLastTurn(i, Len(messages))
                          THEN ConsumedSystem(acc.system) ELSE acc.system])

\* the check of line 150 counts an assistant message as a user message
NoUserMessage_OrAssistant(messages) ==
    \A n \in 1..Len(messages) : messages[n].role \notin {"user", "assistant"}

\* the check of line 150 counts a function message as a user message
NoUserMessage_OrFunction(messages) ==
    \A n \in 1..Len(messages) : messages[n].role \notin {"user", "function"}

\* line 150: all(m.role != "user" for m in messages)
NoUserMessage(messages) ==
    \A n \in 1..Len(messages) : messages[n].role # "user"

\* the query is taken from another message than the last one
QueryOf_First(messages) == messages[1].content

\* line 236: query = messages[-1].content
QueryOf(messages) == messages[Len(messages)].content

\* lines 234-261: query and history from the normalized messages
SplitQuery(messages, system) ==
    LET last_is_user == messages[Len(messages)].role = "user"
        query0 == IF last_is_user THEN QueryOf(messages)
                  ELSE TEXT_COMPLETION_CMD
        rest   == IF last_is_user THEN SliceTo(messages, -1) ELSE messages
        built  == HistoryFrom(rest, 0, [raised |-> <<>>, history |-> <<>>,
                                        system |-> system])
    IN  IF built.raised # <<>>
        THEN [raised |-> built.raised, messages |-> messages,
              query |-> <<>>, history |-> <<>>]
        ELSE IF built.system = <<>>
        THEN [raised |-> <<>>, messages |-> messages,
              query |-> query0, history |-> built.history]
        ELSE IF query0 = TEXT_COMPLETION_CMD
        THEN [raised |-> Raise("AssertionError", ""), messages |-> messages,
              query |-> <<>>, history |-> <<>>]
        ELSE [raised |-> <<>>, messages |-> messages,
              query |-> built.system \o Chars("\n\nQuestion: ") \o query0,
              history |-> built.history]

\* lines 145-261: parse_messages(messages, functions), with the normalized
\* messages of line 233 returned along with (query, history)
parse_messages(messages, functions) ==
    IF NoUserMessage(messages)
    THEN [raised |-> Raise("ValueError", "At least one message must be from user."),
          messages |-> <<>>, query |-> <<>>, history |-> <<>>]
    ELSE LET looped == NormalizeFrom(PopSystem(messages), 0,
                                     Len(PopSystem(messages)),
                                     [raised |-> <<>>, messages |-> <<>>],
                                     functions)
         IN  IF looped.raised # <<>>
             THEN [raised |-> looped.raised, messages |-> looped.messages,
                   query |-> <<>>, history |-> <<>>]
             ELSE SplitQuery(looped.messages,
                             FoldTools(ExtractSystem(messages), functions))

-----------------------------------------------------------------------------
(* The template renderer: make_context, text_complete_last_message and     *)
(* render_chat.                                                            *)

\* tokenizer.encode("\n")
nl_tokens == encode(<<NL>>, TRUE)

\* lines 67-70: _tokenize_str(role, content)
tokenize_str(role, content) ==
    [text   |-> role \o <<NL>> \o content,
     tokens |-> encode(role, FALSE) \o nl_tokens \o encode(content, FALSE)]

\* lines 87-89: prev_chat
TurnText(turn) ==
    <<NL>> \o im_start \o tokenize_str(Chars("user"), turn[1]).text \o im_end
    \o <<NL>> \o im_start \o tokenize_str(Chars("assistant"), turn[2]).text
    \o im_end

\* lines 79-86: next_context_tokens
TurnTokens(turn) ==
    nl_tokens \o <<im_start_id>> \o tokenize_str(Chars("user"), turn[1]).tokens
    \o <<im_end_id>> \o nl_tokens \o <<im_start_id>>
    \o tokenize_str(Chars("assistant"), turn[2]).tokens \o <<im_end_id>>

\* a turn that fills the window exactly is kept
FitsWindow_Inclusive(current_context_size, window) ==
    current_context_size <= window

\* line 94: current_context_size < max_window_size
FitsWindow(current_context_size, window) == current_context_size < window

\* the tokens of an older turn are put behind those of the newer turns
PrependTokens_Appended(next_context_tokens, context_tokens) ==
    context_tokens \o next_context_tokens

\* line 95: context_tokens = next_context_tokens + context_tokens
PrependTokens(next_context_tokens, context_tokens) ==
    next_context_tokens \o context_tokens

\* lines 78-98: the loop over reversed(history), at turn n (1-based) with
\* the newer turns kept in acc
RECURSIVE ContextFrom(_, _, _, _, _)
ContextFrom(turns, n, n_system_tokens, window, acc) ==
    IF n = 0 THEN acc
    ELSE IF FitsWindow(n_system_tokens + Len(TurnTokens(turns[n]))
                       + Len(acc.context_tokens), window)
    THEN ContextFrom(turns, n - 1, n_system_tokens, window,
             [raw_text       |-> TurnText(turns[n]) \o acc.raw_text,
              context_tokens |-> PrependTokens(TurnTokens(turns[n]),
                                               acc.context_tokens)])
    ELSE acc

\* line 59: the default of max_window_size
max_window_size == 6144

\* the query is cut to the tokens the window has left
KeptQuery_Fitted(user_query, n_context_tokens, window) ==
    SubSeq(user_query, 1,
           Min(Len(user_query), Max(0, window - n_context_tokens)))

\* lines 102-112: the query is appended whole, whatever the window has left
KeptQuery(user_query, n_context_tokens, window) == user_query

\* lines 54-113: make_context(tokenizer, query, history, system,
\* max_window_size) -> (raw_text, context_tokens)
make_context(user_query, turns, system, window) ==
    LET system_part   == tokenize_str(Chars("system"), system)
        system_tokens == <<im_start_id>> \o system_part.tokens \o <<im_end_id>>
        kept == ContextFrom(turns, Len(turns), Len(system_tokens), window,
                            [raw_text |-> <<>>, context_tokens |-> <<>>])
        asked == KeptQuery(user_query,
                           Len(system_tokens) + Len(kept.context_tokens),
                           window)
    IN  [raw_text |->
             im_start \o system_part.text \o im_end \o kept.raw_text
             \o <<NL>> \o im_start \o Chars("user\n") \o asked \o im_end
             \o <<NL>> \o im_start \o Chars("assistant\n"),
         context_tokens |->
             system_tokens \o kept.context_tokens
             \o nl_tokens \o <<im_start_id>>
             \o tokenize_str(Chars("user"), asked).tokens
             \o <<im_end_id>> \o nl_tokens \o <<im_start_id>>
             \o encode(Chars("assistant"), TRUE) \o nl_tokens]

\* lines 136-140: the turns of the history, each closed by im_end
RECURSIVE CompletionTurns(_)
CompletionTurns(turns) ==
    IF turns = <<>> THEN <<>>
    ELSE <<NL>> \o im_start \o Chars("user\n") \o Trim(turns[1][1]) \o im_end
         \o <<NL>> \o im_start \o Chars("assistant\n") \o Trim(turns[1][2])
         \o im_end \o CompletionTurns(Tail(turns))

\* the end-of-turn marker of the last turn is left in place
OpenLastTurn_Closed(prompt) == prompt

\* line 141: prompt[: -len(im_end)]
OpenLastTurn(prompt) == SliceTo(prompt, -Len(im_end))

\* lines 132-143: text_complete_last_message(history), the prompt text
\* returned along with its encoding
text_complete_last_message(turns) ==
    LET prompt == OpenLastTurn(im_start \o Chars("system\n") \o default_system
                               \o im_end \o CompletionTurns(turns))
    IN  [raw_text |-> prompt, context_tokens |-> encode(prompt, TRUE)]

\* line 124: if (query == _TEXT_COMPLETION_CMD)
IsTextCompletion(q) == q = TEXT_COMPLETION_CMD

\* the message lists of the model have at most this many messages
MaxMessages == 4

\* the one function definition of the model
FunctionF ==
    [name |-> Chars("f"), name_for_model |-> <<>>, name_for_human |-> <<>>,
     description |-> Chars("d"), description_for_model |-> <<>>,
     parameters |-> "EmptyObject"]

\* request.functions: none, or one function
FunctionLists == {<<>>, <<FunctionF>>}

\* the messages of the model: system messages with a custom and with the
\* default text, user messages in English and in Chinese, assistant
\* messages with content, with a call, and with both, a function result
Messages ==
    {[role |-> "system", content |-> Chars("S"), function_call |-> <<>>],
     [role |-> "system", content |-> default_system, function_call |-> <<>>],
     [role |-> "user", content |-> Chars("hi"), function_call |-> <<>>],
     [role |-> "user", content |-> <<"U+6211">>, function_call |-> <<>>],
     [role |-> "user", content |-> Chars("\nhi "), function_call |-> <<>>],
     [role |-> "assistant", content |-> Chars("partial answer"),
      function_call |-> <<>>],
     [role |-> "assistant", content |-> <<>>,
      function_call |-> <<[name |-> Chars("f"), arguments |-> Chars("{}")]>>],
     [role |-> "assistant", content |-> Chars("ok"),
      function_call |-> <<[name |-> Chars("f"), arguments |-> Chars("{}")]>>],
     [role |-> "function", content |-> Chars("r"), function_call |-> <<>>]}

\* the message lists of at most MaxMessages messages
MessageLists == UNION {[1..n -> Messages] : n \in 0..MaxMessages}

\* a render_chat call arrives on an idle renderer
ChatInit ==
    /\ StreamInit
    /\ request \in [messages : MessageLists, functions : FunctionLists]
    /\ chat_pc = "request"
    /\ normalized = <<>>
    /\ query = <<>>
    /\ history = <<>>
    /\ raised = <<>>
    /\ rendered = <<>>
    /\ renderer_params = [max_seq_len |-> max_seq_len]
    /\ stop_words_list = <<>>
    /\ result = <<>>
    /\ call = <<>>
    /\ caller = NoCaller

\* the loop works on the caller's list: the leading system message is
\* taken off it
CallerMessagesAfter_Aliased(messages) ==
    IF NoUserMessage(messages) THEN messages ELSE PopSystem(messages)

\* line 153: messages = copy.deepcopy(messages); the list the caller passed
\* is as it was when parse_messages ends, line 157 pops from the copy
CallerMessagesAfter(messages) == messages

\* line 122: query, history = self.parse_messages(request.messages,
\* request.functions)
ParseMessages ==
    /\ chat_pc = "request"
    /\ \E parsed \in {parse_messages(request.messages, request.functions)} :
          /\ normalized' = parsed.messages
          /\ raised' = parsed.raised
          /\ query' = parsed.query
          /\ history' = parsed.history
          /\ chat_pc' = IF parsed.raised = <<>> THEN "parsed" ELSE "raised"
    /\ request' = [request EXCEPT
                       !.messages = CallerMessagesAfter(request.messages)]
    /\ UNCHANGED <<rendered, renderer_params,
                   stop_words_list, result, call, caller>>
    /\ UNCHANGED stream_vars

\* lines 128-129: make_context is called without max_window_size, so its
\* default applies whatever the renderer was configured with
RenderWindow(params) == max_window_size

\* lines 123-130: the prompt is rendered by continuation or by the default
\* query path, and returned
RenderPrompt ==
    /\ chat_pc = "parsed"
    /\ \E context \in {IF IsTextCompletion(query)
                        THEN text_complete_last_message(history)
                        ELSE make_context(query, history, default_system,
                                          RenderWindow(renderer_params))} :
          rendered' = <<[path      |-> IF IsTextCompletion(query)
                                       THEN "text_complete_last_message"
                                       ELSE "make_context",
                         prompt    |-> context.raw_text,
                         input_ids |-> context.context_tokens]>>
    /\ chat_pc' = "rendered"
    /\ UNCHANGED <<request, normalized, query, history, raised,
                   renderer_params,
                   stop_words_list, result, call, caller>>
    /\ UNCHANGED stream_vars

ChatNext == ParseMessages \/ RenderPrompt

ChatSpec == ChatInit /\ [][ChatNext]_vars

\* the budgets a renderer of the model is configured with: one that the
\* system turn and one history turn exceed, and the two of the source
Budgets == {60, max_seq_len, max_window_size}

\* the messages of a conversation without functions
PlainMessages ==
    {m \in Messages : m.role \in {"user", "assistant"} /\ m.function_call = <<>>}

PlainMessageLists == UNION {[1..n -> PlainMessages] : n \in 0..MaxMessages}

\* a render_chat call arrives on a renderer configured with some budget
BudgetInit ==
    /\ StreamInit
    /\ request \in [messages : PlainMessageLists, functions : {<<>>}]
    /\ chat_pc = "request"
    /\ normalized = <<>>
    /\ query = <<>>
    /\ history = <<>>
    /\ raised = <<>>
    /\ rendered = <<>>
    /\ renderer_params \in [max_seq_len : Budgets]
    /\ stop_words_list = <<>>
    /\ result = <<>>
    /\ call = <<>>
    /\ caller = NoCaller

BudgetSpec == BudgetInit /\ [][ChatNext]_vars

\* the function names of a call: plain, longer, with a space behind it
Names == {Chars("f"), Chars("get_weather"), Chars("f ")}

\* the arguments of a call: plain, empty, with a space behind or before
\* them, on two lines, and holding the text of a marker
Arguments == {Chars("{}"), <<>>, Chars("{} "), Chars(" {}"), Chars("{\n}"),
              Chars("a\nAction: b")}

\* an assistant message that calls a function
CallMessages ==
    {[role |-> "assistant", content |-> c,
      function_call |-> <<[name |-> n, arguments |-> a]>>] :
        c \in {<<>>, Chars("ok")}, n \in Names, a \in Arguments}

\* the function results that follow a call
ResultMessages ==
    {[role |-> "function", content |-> c, function_call |-> <<>>] :
        c \in {Chars("r"), Chars("x\nAction Input: y")}}

\* a user message, an assistant message with a call and, optionally, the
\* result of the call
CallConversations ==
    {<<u, a>> : u \in {m \in Messages : m.role = "user"}, a \in CallMessages}
    \cup {<<u, a, f>> : u \in {m \in Messages : m.role = "user"},
                        a \in CallMessages, f \in ResultMessages}

\* a render_chat call arrives with a conversation that holds one call
FoldInit ==
    /\ StreamInit
    /\ request \in [messages : CallConversations, functions : FunctionLists]
    /\ chat_pc = "request"
    /\ normalized = <<>>
    /\ query = <<>>
    /\ history = <<>>
    /\ raised = <<>>
    /\ rendered = <<>>
    /\ renderer_params = [max_seq_len |-> max_seq_len]
    /\ stop_words_list = <<>>
    /\ result = <<>>
    /\ call = <<>>
    /\ caller = NoCaller

FoldSpec == FoldInit /\ [][ChatNext]_vars

-----------------------------------------------------------------------------
(* One renderer serves render_chat calls one after the other.  The caller  *)
(* holds two request objects and passes either of them with each call.     *)

\* the calls of one run
MaxCalls == 3

\* the requests the caller holds: with a system message and without one,
\* with and without functions, ending with a user message and with an
\* assistant message, and one that is refused inside the loop
RepeatRequests ==
    {[messages  |-> <<ChatMessage("system", Chars("S")),
                      ChatMessage("user", Chars("hi"))>>,
      functions |-> <<>>],
     [messages  |-> <<ChatMessage("user", Chars("hi"))>>,
      functions |-> <<FunctionF>>],
     [messages  |-> <<ChatMessage("system", Chars("S")),
                      ChatMessage("user", <<"U+6211">>),
                      ChatMessage("assistant", Chars("partial answer"))>>,
      functions |-> <<FunctionF>>],
     [messages  |-> <<ChatMessage("system", Chars("S")),
                      ChatMessage("user", Chars("hi")),
                      ChatMessage("function", Chars("r"))>>,
      functions |-> <<>>]}

\* a renderer that has served no call, and a caller that holds two requests
RepeatInit ==
    /\ StreamInit
    /\ request = [messages |-> <<>>, functions |-> <<>>]
    /\ chat_pc = "idle"
    /\ normalized = <<>>
    /\ query = <<>>
    /\ history = <<>>
    /\ raised = <<>>
    /\ rendered = <<>>
    /\ renderer_params = [max_seq_len |-> max_seq_len]
    /\ stop_words_list = <<>>
    /\ result = <<>>
    /\ call = <<>>
    /\ \E held \in [1..2 -> RepeatRequests] :
          caller = [objects |-> held, submitted |-> held, slot |-> 0,
                    outputs |-> <<>>]

\* line 120: the caller passes one of its requests to render_chat, which
\* works on that very object
Submit(slot) ==
    /\ chat_pc = "idle"
    /\ Len(caller.outputs) < MaxCalls
    /\ request' = caller.objects[slot]
    /\ caller' = [caller EXCEPT !.slot = slot]
    /\ chat_pc' = "request"
    /\ UNCHANGED <<normalized, query, history, raised, rendered,
                   renderer_params,
                   stop_words_list, result, call>>
    /\ UNCHANGED stream_vars

\* lines 130 and 151: the call returns or raises; the caller gets the
\* result, and its request is as the call left it
Return ==
    /\ chat_pc \in {"rendered", "raised"}
    /\ caller' = [caller EXCEPT
                      !.objects[caller.slot] = request,
                      !.outputs = Append(@, [slot     |-> caller.slot,
                                             raised   |-> raised,
                                             rendered |-> rendered])]
    /\ request' = [messages |-> <<>>, functions |-> <<>>]
    /\ chat_pc' = "idle"
    /\ normalized' = <<>>
    /\ query' = <<>>
    /\ history' = <<>>
    /\ raised' = <<>>
    /\ rendered' = <<>>
    /\ UNCHANGED <<renderer_params,
                   stop_words_list, result, call>>
    /\ UNCHANGED stream_vars

RepeatNext ==
    \/ \E slot \in 1..2 : Submit(slot)
    \/ ParseMessages
    \/ RenderPrompt
    \/ Return

RepeatSpec == RepeatInit /\ [][RepeatNext]_vars

-----------------------------------------------------------------------------
(* make_context called on its own, with every window.                      *)

\* a history has at most this many turns
MaxTurns == 3

\* the windows of the model are 0..MaxWindow and the default window
MaxWindow == 110

\* the turns of the model, of 22, 24 and 32 tokens; one holds the text of
\* a turn marker
Turns == {<<Chars("q"), Chars("a")>>, <<Chars("q1"), Chars("a1")>>,
          <<Chars("hi"), im_end>>}

Histories == UNION {[1..n -> Turns] : n \in 0..MaxTurns}

Queries == {Chars("q?"), im_start \o Chars("x")}

Systems == {<<>>, Chars("S")}

Windows == 0..MaxWindow \cup {max_window_size}

\* make_context is called
ContextInit ==
    /\ StreamInit
    /\ request = [messages |-> <<>>, functions |-> <<>>]
    /\ chat_pc = "call"
    /\ normalized = <<>>
    /\ query = <<>>
    /\ history = <<>>
    /\ raised = <<>>
    /\ rendered = <<>>
    /\ renderer_params = [max_seq_len |-> max_seq_len]
    /\ stop_words_list = <<>>
    /\ result = <<>>
    /\ call \in [query : Queries, history : Histories, system : Systems,
                 max_window_size : Windows]
    /\ caller = NoCaller

\* lines 54-113: the call runs and returns (raw_text, context_tokens)
MakeContext ==
    /\ chat_pc = "call"
    /\ \E context \in {make_context(call.query, call.history, call.system,
                                    call.max_window_size)} :
          rendered' = <<[path      |-> "make_context",
                         prompt    |-> context.raw_text,
                         input_ids |-> context.context_tokens]>>
    /\ chat_pc' = "returned"
    /\ UNCHANGED <<request, normalized, query, history, raised,
                   renderer_params,
                   stop_words_list, result, call, caller>>
    /\ UNCHANGED stream_vars

ContextSpec == ContextInit /\ [][MakeContext]_vars

-----------------------------------------------------------------------------
(* Vocabulary of the properties.                                           *)

\* a delta that carries content and nothing else (incremental or flush)
IsContentDelta(e) ==
    e.content # <<>> /\ e.function_call = <<>> /\ e.finish_reason = None

IsRoleEvent(e) == e.role # <<>>

IsFunctionEvent(e) == e.function_call # <<>>

\* the terminal delta: empty content and a finish reason
IsTerminalEvent(e) ==
    /\ e.content = << <<>> >>
    /\ e.function_call = <<>>
    /\ e.role = <<>>
    /\ e.finish_reason # None

\* the events the step from the unprimed to the primed state yielded
NewEventIndexes == (Len(events) + 1)..Len(events')

\* the step is an iteration of the async for
IsUpdateStep == nsteps' = nsteps + 1

\* the text the model has generated: the completion tokens, decoded
GeneratedText ==
    decode(WithoutEos(SliceFrom(output.output_ids, input_token_length)))

FunctionEvents == {k \in 1..Len(events) : IsFunctionEvent(events[k])}

ContentDeltas == {k \in 1..Len(events) : IsContentDelta(events[k])}

RoleEvents == {k \in 1..Len(events) : IsRoleEvent(events[k])}

\* the number of occurrences of p in s
Occurrences(s, p) ==
    Cardinality({i \in 0..(Len(s) - Len(p)) : MatchAt(s, p, i)})

-----------------------------------------------------------------------------
(* C1 as stated: in a stream in which generating_function_call became      *)
(* true, no content delta (incremental or final flush) contains            *)
(* "\nAction:".                                                            *)
C1_NoMarkerInAnyContentDelta ==
    generating_function_call =>
        \A k \in ContentDeltas : ~Contains(events[k].content[1], NlActionTag)

(* C1 amended: once generating_function_call is true, a content delta      *)
(* that contains "\nAction:" is yielded only as the final flush after a    *)
(* function-call extraction that failed; no incremental delta and no       *)
(* flush after a successful extraction carries the marker.                 *)
C1_MarkerOnlyInFailedFlush ==
    [][\A k \in NewEventIndexes :
          (/\ generating_function_call'
           /\ IsContentDelta(events'[k])
           /\ Contains(events'[k].content[1], NlActionTag))
          => (/\ pc' = "done"
              /\ \A m \in 1..Len(events') : ~IsFunctionEvent(events'[m]))]_vars

\* content was streamed, the latch was set, and the buffered call was
\* extracted at the end of the stream
C1_Witness ==
    /\ pc = "done"
    /\ generating_function_call
    /\ FunctionEvents # {}
    /\ ContentDeltas # {}

-----------------------------------------------------------------------------
\* the generated text is <visible> "\nAction:" <name> "\nAction Input:"
\* <args>, optionally closed by "\nObservation:": one marker of each kind,
\* in this order, a name that is not blank and no "Action:" in <visible>
IsOneFunctionCall(text) ==
    LET i == RFind(text, NlActionTag)
        j == RFind(text, NlActionInputTag)
        k == RFind(text, NlObservationTag)
    IN  /\ Occurrences(text, NlActionTag) = 1
        /\ Occurrences(text, NlActionInputTag) = 1
        /\ Occurrences(text, NlObservationTag) <= 1
        /\ i < j
        /\ k >= 0 => (j < k /\ k + Len(NlObservationTag) = Len(text))
        /\ Strip(Slice(text, i + Len(NlActionTag), j), Whitespace) # <<>>
        /\ ~Contains(SliceTo(text, i), ActionTag)

\* the name written in a text of that form
CallName(text) ==
    Strip(Slice(text, RFind(text, NlActionTag) + Len(NlActionTag),
                RFind(text, NlActionInputTag)), Whitespace)

\* the arguments written in a text of that form
CallArguments(text) ==
    LET j == RFind(text, NlActionInputTag)
        k == RFind(text, NlObservationTag)
    IN  Strip(Slice(text, j + Len(NlActionInputTag),
                    IF k >= 0 THEN k ELSE Len(text)), Whitespace)

(* C2: a stream whose text at some step ended with "\nAction:" and whose   *)
(* final text is one well-formed function call after some visible text     *)
(* yields exactly one function-call event with that name and arguments     *)
(* and finish reason function_call, and no content delta before it         *)
(* contains "Action:".                                                     *)
C2_OneFunctionCallEvent ==
    (pc = "done" /\ generating_function_call /\ IsOneFunctionCall(GeneratedText))
    => /\ Cardinality(FunctionEvents) = 1
       /\ \A k \in FunctionEvents :
             /\ events[k].function_call[1].name = CallName(GeneratedText)
             /\ events[k].function_call[1].arguments =
                    CallArguments(GeneratedText)
             /\ events[k].finish_reason = "function_call"
             /\ \A m \in ContentDeltas :
                   m < k => ~Contains(events[m].content[1], ActionTag)

-----------------------------------------------------------------------------
\* the stream has returned and its last event is the terminal delta
EndsWithTerminalEvent ==
    /\ events # <<>>
    /\ IsTerminalEvent(events[Len(events)])
    /\ \A k \in 1..(Len(events) - 1) : ~IsTerminalEvent(events[k])

(* C3: for every finite sequence of generation steps, the empty one        *)
(* included, the stream returns; its last event is the terminal delta,     *)
(* with empty content and a finish reason, and nothing is yielded after    *)
(* it.                                                                     *)
C3_TerminatesWithTerminalEvent ==
    <>[](pc = "done" /\ EndsWithTerminalEvent)

\* the stream of an empty generation sequence has returned
C3_Witness == pc = "done" /\ nsteps = 0 /\ Len(events) = 1

-----------------------------------------------------------------------------
(* C4: a request with at least one generation step yields exactly one      *)
(* role announcement, and it precedes every content delta, however many    *)
(* leading steps carry no completion token.                                *)
C4_OneRoleAnnouncement ==
    nsteps >= 1 =>
        /\ Cardinality(RoleEvents) = 1
        /\ \A r \in RoleEvents : \A c \in ContentDeltas : r < c

-----------------------------------------------------------------------------
\* the content of the content deltas, concatenated in the order yielded
DeliveredText ==
    Flatten([k \in 1..Len(events) |->
                IF IsContentDelta(events[k]) THEN events[k].content[1]
                ELSE <<>>])

(* C5: when the latch was never set (the text of every step extends the    *)
(* text of the step before: tokens are only appended), the contents of     *)
(* the incremental deltas and of the final flush, concatenated in the      *)
(* order yielded, are exactly the final output_string.                     *)
C5_DeliveredTextIsOutput ==
    (pc = "done" /\ ~generating_function_call) => DeliveredText = output_string

\* a stream without function call that delivered its text in several
\* incremental deltas and a final flush
C5_Witness ==
    /\ pc = "done"
    /\ ~generating_function_call
    /\ Cardinality(ContentDeltas) >= 3
    /\ IsContentDelta(events[Len(events) - 1])

-----------------------------------------------------------------------------
\* output_string[responded_length:]
UnflushedSuffix == SliceFrom(output_string, responded_length)

\* no last "\nAction:" before the last "\nAction Input:", or a blank name
ExtractionFails(text) ==
    LET i == RFind(text, NlActionTag)
        j == RFind(text, NlActionInputTag)
    IN  \/ i < 0
        \/ i >= j
        \/ Strip(Slice(text, i + Len(NlActionTag), j), Whitespace) = <<>>

(* C6: when the stream ends with the latch set and extraction fails on     *)
(* the unflushed suffix, the code after the loop yields no function-call   *)
(* event: it yields the whole unflushed suffix as one content delta and    *)
(* then the terminal event with finish reason stop.                        *)
C6_FailedExtractionFlushesText ==
    [][(/\ pc = "loop" /\ pc' = "done"
        /\ generating_function_call
        /\ ExtractionFails(UnflushedSuffix))
       => (/\ Len(events') = Len(events) + 2
           /\ SubSeq(events', 1, Len(events)) = events
           /\ IsContentDelta(events'[Len(events) + 1])
           /\ events'[Len(events) + 1].content[1] = UnflushedSuffix
           /\ IsTerminalEvent(events'[Len(events) + 2])
           /\ events'[Len(events) + 2].finish_reason = "stop")]_vars

\* the stream ended with the latch set and without a function-call event
C6_Witness ==
    /\ pc = "done"
    /\ generating_function_call
    /\ FunctionEvents = {}
    /\ IsContentDelta(events[Len(events) - 1])

-----------------------------------------------------------------------------
(* C7: responded_length <= len(output_string) in every reachable state.    *)
C7_RespondedWithinOutput == responded_length <= Len(output_string)

-----------------------------------------------------------------------------
\* the step yielded a content delta
YieldsContentDelta == \E k \in NewEventIndexes : IsContentDelta(events'[k])

(* C8: generating_function_call is a latch: an update sets it exactly      *)
(* when it was set before or the trimmed output_string now ends with       *)
(* "\nAction:", it never reverts to false, and an update that leaves it    *)
(* set yields no content delta.                                            *)
C8_LatchBuffers ==
    [][/\ generating_function_call => generating_function_call'
       /\ IsUpdateStep =>
            /\ generating_function_call' <=>
                   (generating_function_call
                    \/ EndsWith(output_string', NlActionTag))
            /\ generating_function_call' => ~YieldsContentDelta]_vars

\* the loop is still running on a later update than the one that set the
\* latch
C8_Witness ==
    /\ pc = "loop"
    /\ generating_function_call
    /\ ~EndsWith(output_string, NlActionTag)

-----------------------------------------------------------------------------
(* C9: whenever an update yields a content delta, the delta is             *)
(* output_string[old responded_length : len(output_string) - 8] and        *)
(* responded_length becomes len(output_string) - 8, 8 being                *)
(* len("\nAction:").                                                       *)
C9_WithholdsMarkerLength ==
    [][(IsUpdateStep /\ YieldsContentDelta)
       => /\ \A k \in NewEventIndexes :
                IsContentDelta(events'[k]) =>
                    events'[k].content[1] =
                        Slice(output_string', responded_length,
                              Len(output_string') - Len(NlActionTag))
          /\ responded_length' = Len(output_string') - Len(NlActionTag)]_vars

-----------------------------------------------------------------------------
(* C10: when the generation loop reports with its final step that          *)
(* generation ended by length exhaustion, the terminal event carries       *)
(* finish reason length.                                                   *)
C10_LengthPassedThrough ==
    (pc = "done" /\ output.finished /\ output.finish_reason = "length")
    => events[Len(events)].finish_reason = "length"

-----------------------------------------------------------------------------
(* C11: when the generation loop supplies no length signal, the terminal   *)
(* event carries finish reason function_call if the stream ends with the   *)
(* latch set and the extraction on the unflushed suffix succeeds, and      *)
(* stop in every other case (latch never set, or extraction failed).       *)
C11_ReasonFollowsExtraction ==
    [][(pc = "loop" /\ pc' = "done" /\ output.finish_reason = None)
       => /\ IsTerminalEvent(events'[Len(events')])
          /\ events'[Len(events')].finish_reason =
                IF generating_function_call /\ ~ExtractionFails(UnflushedSuffix)
                THEN "function_call" ELSE "stop"
          /\ events'[Len(events')].finish_reason = "function_call"
                <=> \E k \in NewEventIndexes : IsFunctionEvent(events'[k])]_vars

\* a stream without length signal ended with a terminal event of reason
\* function_call
C11_Witness ==
    /\ pc = "done"
    /\ output.finish_reason = None
    /\ nsteps >= 2
    /\ events[Len(events)].finish_reason = "function_call"

-----------------------------------------------------------------------------
(* C12: every event of a stream, the role announcement and the terminal    *)
(* event included, carries usage counters: prompt_tokens is the prompt     *)
(* token length, completion_tokens a number of completion tokens produced  *)
(* so far, total_tokens their sum.                                         *)
C12_EveryEventCarriesUsage ==
    \A k \in 1..Len(events) :
        /\ events[k].usage # <<>>
        /\ events[k].usage[1].prompt_tokens = input_token_length
        /\ events[k].usage[1].completion_tokens \in 0..output_token_length
        /\ events[k].usage[1].total_tokens =
               events[k].usage[1].prompt_tokens
               + events[k].usage[1].completion_tokens

-----------------------------------------------------------------------------
(* Vocabulary of the properties of render_chat.                            *)

\* parse_messages has returned or raised
ParseEnded == chat_pc \in {"parsed", "rendered", "raised"}

\* parse_messages has returned (query, history)
Accepted == chat_pc \in {"parsed", "rendered"}

HasUser == \E n \in 1..Len(request.messages) : request.messages[n].role = "user"

\* the request's messages after a leading system message was removed
RawMessages ==
    IF request.messages # <<>> /\ request.messages[1].role = "system"
    THEN Tail(request.messages) ELSE request.messages

\* `messages` and the exception, if any, after the first n iterations of
\* the normalization loop on the request
LoopState(n) ==
    NormalizeFrom(RawMessages, 0, n, [raised |-> <<>>, messages |-> <<>>],
                  request.functions)

\* the normalization loop ran on every message without raising
LoopFinished == HasUser /\ LoopState(Len(RawMessages)).raised = <<>>

RaisedWith(kind, message) ==
    chat_pc = "raised" /\ raised = <<[kind |-> kind, message |-> message]>>

\* nothing was returned: no query, no history, no prompt
NothingReturned == query = <<>> /\ history = <<>> /\ rendered = <<>>

-----------------------------------------------------------------------------
(* C13: for every message list without a message of role user, the empty   *)
(* list included, parse_messages raises the error of line 151 before the   *)
(* normalization loop has produced anything, and render_chat returns no    *)
(* prompt.                                                                 *)
C13_NoUserFailsFirst ==
    (ParseEnded /\ ~HasUser)
    => /\ RaisedWith("ValueError", "At least one message must be from user.")
       /\ normalized = <<>>
       /\ NothingReturned

\* a list of several messages, none of them from the user, was refused
C13_Witness ==
    /\ chat_pc = "raised"
    /\ ~HasUser
    /\ Len(request.messages) >= 2
    /\ \E n \in 1..Len(request.messages) : request.messages[n].role = "function"

-----------------------------------------------------------------------------
(* C14: a function message reached by the normalization loop makes         *)
(* parse_messages fail when no normalized message precedes it or the last  *)
(* normalized message is not an assistant message; otherwise the loop      *)
(* appends "\nObservation: <content>" to that assistant message, and       *)
(* "\nThought:" after it exactly when the function message is the last     *)
(* message of the request.                                                 *)
C14_FunctionResultFolded ==
    (ParseEnded /\ HasUser)
    => /\ \A p \in 1..Len(RawMessages) :
            (RawMessages[p].role = "function" /\ LoopState(p - 1).raised = <<>>)
            => IF \/ LoopState(p - 1).messages = <<>>
                  \/ LoopState(p - 1).messages[Len(LoopState(p - 1).messages)].role
                        # "assistant"
               THEN /\ RaisedWith("ValueError", "Invalid request: Expecting role assistant before role function.")
                    /\ NothingReturned
               ELSE /\ LoopState(p).raised = <<>>
                    /\ LoopState(p).messages =
                         [LoopState(p - 1).messages
                            EXCEPT ![Len(LoopState(p - 1).messages)].content =
                               @ \o Chars("\nObservation: ")
                                 \o RawMessages[p].content
                                 \o (IF p = Len(RawMessages)
                                     THEN Chars("\nThought:") ELSE <<>>)]
       /\ LoopFinished => normalized = LoopState(Len(RawMessages)).messages

\* a request whose last message is a function result was accepted, and one
\* function result before it was folded without the cue
C14_Witness ==
    /\ Accepted
    /\ Len(RawMessages) = 4
    /\ RawMessages[3].role = "function"
    /\ RawMessages[4].role = "function"
    /\ EndsWith(normalized[Len(normalized)].content,
                Chars("\nObservation: r\nObservation: r\nThought:"))

-----------------------------------------------------------------------------
\* a message left after the leading system message has a role outside
\* {user, assistant, function}
HasOtherRole ==
    \E p \in 1..Len(RawMessages) :
        RawMessages[p].role \notin {"user", "assistant", "function"}

\* an assistant message without a normalized message before it
HasLeadingAssistant == RawMessages # <<>> /\ RawMessages[1].role = "assistant"

(* C15: parse_messages raises a ValueError and returns no query and no     *)
(* history whenever a message left after the removal of a leading system   *)
(* message has a role outside {user, assistant, function} (a system        *)
(* message at any later position), and whenever an assistant message has   *)
(* no normalized message before it; the loop raises the error of the       *)
(* offending message when it reaches that message.                         *)
C15_BadRoleOrLeadingAssistantFails ==
    (ParseEnded /\ (HasOtherRole \/ HasLeadingAssistant))
    => /\ chat_pc = "raised"
       /\ raised[1].kind = "ValueError"
       /\ NothingReturned
       /\ (HasUser /\ HasLeadingAssistant)
          => RaisedWith("ValueError", "Invalid request: Expecting role user before role assistant.")
       /\ \A p \in 1..Len(RawMessages) :
             (/\ HasUser
              /\ RawMessages[p].role \notin {"user", "assistant", "function"}
              /\ LoopState(p - 1).raised = <<>>)
             => RaisedWith("ValueError", "Invalid request: Incorrect role.")

\* a request with a user message and a system message after it was refused
C15_Witness ==
    /\ RaisedWith("ValueError", "Invalid request: Incorrect role.")
    /\ Len(RawMessages) >= 3
    /\ RawMessages[1].role = "user"
    /\ RawMessages[Len(RawMessages)].role = "system"

-----------------------------------------------------------------------------
\* the normalized messages left once the query was split off
Remaining ==
    IF normalized[Len(normalized)].role = "user"
    THEN SubSeq(normalized, 1, Len(normalized) - 1)
    ELSE normalized

\* the messages are not a sequence of (user, assistant) pairs
Ungroupable(messages) ==
    \/ Len(messages) % 2 = 1
    \/ \E t \in 1..(Len(messages) \div 2) :
          ~(messages[2 * t - 1].role = "user"
            /\ messages[2 * t].role = "assistant")

(* C16: whenever the normalized messages left after the query was split    *)
(* off cannot be grouped into (user, assistant) pairs, parse_messages      *)
(* raises the ValueError of lines 253-255, the error kind of every other   *)
(* role-sequencing violation, and no other kind of failure.                *)
C16_UnpairedHistoryIsInvalidRole ==
    (ParseEnded /\ LoopFinished /\ Ungroupable(Remaining))
    => RaisedWith("ValueError", "Invalid request: Expecting exactly one user (or function) role before every assistant role.")

-----------------------------------------------------------------------------
\* the request carries a custom system text or a function list
SystemGiven ==
    \/ request.functions # <<>>
    \/ /\ request.messages # <<>>
       /\ request.messages[1].role = "system"
       /\ request.messages[1].content \notin {<<>>, default_system}

\* the history is the remaining messages, pair by pair and in their order:
\* the assistant text is the assistant message's, and so is the user text,
\* up to the system text in front of it
HistoryIsRemainingPairs ==
    /\ ~Ungroupable(Remaining)
    /\ Len(history) * 2 = Len(Remaining)
    /\ \A t \in 1..Len(history) :
          /\ EndsWith(history[t][1], Remaining[2 * t - 1].content)
          /\ EndsWith(Remaining[2 * t].content, history[t][2])
          /\ history[t][2] # <<>>

(* C17 as stated: for every accepted conversation, query is the content    *)
(* of the last normalized message when that message is a user message and  *)
(* the text-completion sentinel otherwise; history holds the remaining     *)
(* messages as complete (user, assistant) pairs in their order, without    *)
(* the message that became query.                                          *)
C17_QueryIsLastUserContent ==
    Accepted
    => /\ IF normalized[Len(normalized)].role = "user"
          THEN query = normalized[Len(normalized)].content
          ELSE query = TEXT_COMPLETION_CMD
       /\ HistoryIsRemainingPairs

(* C17 amended: for every accepted conversation, query is the sentinel     *)
(* exactly when the last normalized message is not a user message;         *)
(* otherwise it is that message's content, and exactly when a system text  *)
(* is given and history is empty it is preceded by that text and           *)
(* "\n\nQuestion: ".  History holds the remaining messages as complete     *)
(* (user, assistant) pairs in their order, every user text but the last    *)
(* unchanged, without the message that became query.                       *)
C17_QueryIsLastUserContentOrPrefixed ==
    Accepted
    => /\ (query = TEXT_COMPLETION_CMD)
            <=> (normalized[Len(normalized)].role # "user")
       /\ normalized[Len(normalized)].role = "user"
          => IF SystemGiven /\ history = <<>>
             THEN /\ EndsWith(query, Chars("\n\nQuestion: ")
                                     \o normalized[Len(normalized)].content)
                  /\ Len(query) > Len(Chars("\n\nQuestion: "))
                                  + Len(normalized[Len(normalized)].content)
             ELSE query = normalized[Len(normalized)].content
       /\ HistoryIsRemainingPairs
       /\ \A t \in 1..(Len(history) - 1) :
             history[t][1] = Remaining[2 * t - 1].content

\* a conversation of a custom system text, a function list and one user
\* message was accepted: the query carries the system text
C17_Witness ==
    /\ Accepted
    /\ history = <<>>
    /\ request.functions # <<>>
    /\ request.messages[1].content = Chars("S")
    /\ Len(query) > Len(normalized[Len(normalized)].content)

-----------------------------------------------------------------------------
\* the system text as parse_messages builds it: the custom text, then the
\* tool instructions
SystemBlock == FoldTools(ExtractSystem(request.messages), request.functions)

\* the user texts of the result, oldest first: those of the history, then
\* the query when there is one
UserTexts ==
    [t \in 1..Len(history) |-> history[t][1]]
    \o (IF query = TEXT_COMPLETION_CMD THEN <<>> ELSE <<query>>)

\* the text is the system block, two newlines, "Question: " and a question
CarriesSystem(text) ==
    StartsWith(text, SystemBlock \o Chars("\n\nQuestion: "))

(* C18 as stated: for every accepted conversation with a custom system     *)
(* text or a function list, the system block appears exactly once in the   *)
(* result and sits immediately before the final question, the last user    *)
(* text of the result, however many turns precede it.                      *)
C18_SystemBeforeFinalQuestion ==
    (Accepted /\ SystemGiven)
    => /\ Cardinality({t \in 1..Len(UserTexts) : CarriesSystem(UserTexts[t])}) = 1
       /\ CarriesSystem(UserTexts[Len(UserTexts)])

(* C18 amended: for every accepted conversation with a custom system text  *)
(* or a function list, the system block appears exactly once in the        *)
(* result, in the form <system> "\n\nQuestion: " <text>: in front of the   *)
(* user text of the last history turn when history is not empty, and in    *)
(* front of the query only when history is empty.                          *)
C18_SystemBeforeLastTurnOrQuery ==
    (Accepted /\ SystemGiven)
    => /\ Cardinality({t \in 1..Len(UserTexts) : CarriesSystem(UserTexts[t])}) = 1
       /\ \A t \in 1..Len(history) :
             Occurrences(history[t][2], SystemBlock) = 0
       /\ IF history # <<>>
          THEN CarriesSystem(history[Len(history)][1])
          ELSE CarriesSystem(query)

\* a conversation of one turn and a final question with a system text was
\* accepted: the system text is in the turn, not in the query
C18_Witness ==
    /\ Accepted
    /\ SystemGiven
    /\ Len(history) = 1
    /\ query # TEXT_COMPLETION_CMD
    /\ CarriesSystem(history[1][1])
    /\ ~CarriesSystem(query)

-----------------------------------------------------------------------------
(* C19: the request whose messages are exactly                             *)
(* [assistant("partial answer")], without functions, is rendered by        *)
(* text_complete_last_message and never by make_context.                   *)
C19_LoneAssistantIsContinued ==
    (/\ ParseEnded
     /\ request.functions = <<>>
     /\ request.messages = <<[role |-> "assistant",
                              content |-> Chars("partial answer"),
                              function_call |-> <<>>]>>)
    => /\ Accepted
       /\ chat_pc = "rendered"
          => rendered[1].path = "text_complete_last_message"

\* the request [assistant("partial answer")] without functions
IsLoneAssistantRequest ==
    /\ request.functions = <<>>
    /\ Len(request.messages) = 1
    /\ request.messages[1].role = "assistant"
    /\ request.messages[1].content = Chars("partial answer")
    /\ request.messages[1].function_call = <<>>

(* C19 amended: the request whose messages are exactly                     *)
(* [assistant("partial answer")], without functions, is refused by         *)
(* parse_messages with the error of line 151, for it has no user message;  *)
(* it is rendered neither by text_complete_last_message nor by             *)
(* make_context.                                                           *)
C19_LoneAssistantIsRefused ==
    (ParseEnded /\ IsLoneAssistantRequest)
    => /\ RaisedWith("ValueError", "At least one message must be from user.")
       /\ rendered = <<>>

\* the request was made and refused
C19_Witness == chat_pc = "raised" /\ IsLoneAssistantRequest

-----------------------------------------------------------------------------
\* the conversation is a user message, an assistant message with a
\* function call and a function result
IsCallRoundTrip ==
    /\ Len(request.messages) = 3
    /\ request.messages[1].role = "user"
    /\ request.messages[2].role = "assistant"
    /\ request.messages[2].function_call # <<>>
    /\ request.messages[3].role = "function"

\* the thought of the assistant turn: its content, or the synthesized one
\* in the language of the user message
ExpectedThought ==
    IF request.messages[2].content # <<>> THEN request.messages[2].content
    ELSE IF \E n \in 1..Len(request.messages[1].content) :
               request.messages[1].content[n] \in CJK
    THEN Chars("Thought: ") \o <<"U+6211", "U+53EF", "U+4EE5", "U+4F7F", "U+7528">>
         \o Chars(" ") \o request.messages[2].function_call[1].name
         \o Chars(" API") \o <<"U+3002">>
    ELSE Chars("Thought: I can use ")
         \o request.messages[2].function_call[1].name \o Chars(".")

(* C20: for a conversation user, assistant with a function call, function  *)
(* result, render_chat returns a prompt whose last turn is an open         *)
(* assistant turn: the assistant header, the thought (synthesized when     *)
(* the content is empty), "Action: <name>", "Action Input: <arguments>",   *)
(* "Observation: <result>" on successive lines and "\nThought:" at the     *)
(* end, with no end-of-turn marker after it and no assistant header open   *)
(* after it.                                                               *)
C20_CallRoundTripLeftOpen ==
    (ParseEnded /\ IsCallRoundTrip)
    => /\ Accepted
       /\ chat_pc = "rendered"
          => /\ EndsWith(rendered[1].prompt,
                  im_start \o Chars("assistant\n") \o ExpectedThought
                  \o Chars("\nAction: ")
                  \o request.messages[2].function_call[1].name
                  \o Chars("\nAction Input: ")
                  \o request.messages[2].function_call[1].arguments
                  \o Chars("\nObservation: ") \o request.messages[3].content
                  \o Chars("\nThought:"))
             /\ Occurrences(rendered[1].prompt, im_start \o Chars("assistant\n")) = 1
             /\ rendered[1].input_ids[Len(rendered[1].input_ids)]
                   \notin {im_end_id, im_start_id}
             /\ decode(rendered[1].input_ids) = rendered[1].prompt

\* the prompt of such a conversation, asked in Chinese and with a function
\* list, was rendered
C20_Witness ==
    /\ chat_pc = "rendered"
    /\ IsCallRoundTrip
    /\ request.functions # <<>>
    /\ request.messages[2].content = <<>>
    /\ request.messages[1].content = <<"U+6211">>

-----------------------------------------------------------------------------
\* the system turn of every prompt render_chat builds
SystemTurn == im_start \o Chars("system\n") \o default_system \o im_end

\* a closed user turn holding the text
UserTurn(text) == <<NL>> \o im_start \o Chars("user\n") \o text \o im_end

\* a closed assistant turn holding the text
AssistantTurn(text) ==
    <<NL>> \o im_start \o Chars("assistant\n") \o text \o im_end

\* the assistant turn header left open for the model to continue
OpenAssistantHeader == <<NL>> \o im_start \o Chars("assistant\n")

\* the conversation is a single user message
IsSingleUser ==
    Len(request.messages) = 1 /\ request.messages[1].role = "user"

\* the tool-instruction block of the one function of the model
ToolBlock ==
    REACT_INSTRUCTION(TOOL_DESC(FunctionF.name, FunctionF.name,
                                FunctionF.description, Chars("{}")),
                      FunctionF.name)

\* the prompt of a single user message whose user turn holds the text q
SingleUserPrompt(q) ==
    SystemTurn
    \o UserTurn(IF request.functions = <<>> THEN q
                ELSE ToolBlock \o Chars("\n\nQuestion: ") \o q)
    \o OpenAssistantHeader

(* C21 as stated: for a conversation that is a single user message q, the  *)
(* rendered prompt is exactly the system turn with the default system      *)
(* text, one user turn and an open assistant header; the user turn holds   *)
(* q alone without functions, and the tool-instruction block, two          *)
(* newlines and "Question: q" with functions.                              *)
C21_SingleUserPromptHoldsQ ==
    (chat_pc = "rendered" /\ IsSingleUser)
    => rendered[1].prompt = SingleUserPrompt(request.messages[1].content)

(* C21, amended: the same, with q taken without its leading newlines and   *)
(* its trailing whitespace, which normalization removes.                   *)
C21_SingleUserPromptHoldsTrimmedQ ==
    (ParseEnded /\ IsSingleUser)
    => /\ Accepted
       /\ chat_pc = "rendered"
          => /\ rendered[1].path = "make_context"
             /\ rendered[1].prompt =
                    SingleUserPrompt(RStrip(LStrip(request.messages[1].content, {NL}),
                                            Whitespace))
             /\ decode(rendered[1].input_ids) = rendered[1].prompt

\* the prompt of the single user message "\nhi " with a function list was
\* rendered
C21_Witness ==
    /\ chat_pc = "rendered"
    /\ IsSingleUser
    /\ request.functions # <<>>
    /\ request.messages[1].content = Chars("\nhi ")
    /\ rendered[1].prompt =
           SystemTurn \o UserTurn(ToolBlock \o Chars("\n\nQuestion: hi"))
           \o OpenAssistantHeader

-----------------------------------------------------------------------------
\* no message of the conversation is a function call or a function result
NoToolCall ==
    \A n \in 1..Len(request.messages) :
        /\ request.messages[n].function_call = <<>>
        /\ request.messages[n].role # "function"

\* the closed turns of the first n turns of the history, oldest first
RECURSIVE ClosedTurns(_)
ClosedTurns(n) ==
    IF n = 0 THEN <<>>
    ELSE ClosedTurns(n - 1) \o UserTurn(history[n][1])
         \o AssistantTurn(history[n][2])

\* the positions of the user messages of the request, in their order
UserPositions ==
    SelectSeq([n \in 1..Len(request.messages) |-> n],
              LAMBDA n : request.messages[n].role = "user")

\* the user turns hold the user messages in the order of the request: the
\* k-th user text of the result ends with the text of the k-th user message
UserTurnsInOrder ==
    /\ Len(UserTexts) = Len(UserPositions)
    /\ \A k \in 1..Len(UserTexts) :
          EndsWith(UserTexts[k],
                   RStrip(LStrip(request.messages[UserPositions[k]].content,
                                 {NL}), Whitespace))

\* the assistant turns hold the assistant messages in the order of the
\* request: the t-th assistant text ends with the text of the last
\* assistant message before the (t+1)-th user message
AssistantTurnsInOrder ==
    \A t \in 1..Len(history) :
        LET group_end == IF t < Len(UserPositions)
                         THEN UserPositions[t + 1] - 1
                         ELSE Len(request.messages)
        IN  /\ request.messages[group_end].role = "assistant"
            /\ EndsWith(history[t][2],
                        RStrip(request.messages[group_end].content, Whitespace))

(* C22 as stated: for every valid conversation with no tool call, the      *)
(* rendered text begins with the system turn, is followed by alternating   *)
(* user and assistant turns in the original message order, and ends with   *)
(* an open assistant turn header.                                          *)
C22_EndsWithOpenAssistantHeader ==
    (chat_pc = "rendered" /\ NoToolCall)
    => /\ StartsWith(rendered[1].prompt, SystemTurn \o UserTurn(UserTexts[1]))
       /\ UserTurnsInOrder
       /\ AssistantTurnsInOrder
       /\ EndsWith(rendered[1].prompt, OpenAssistantHeader)

(* C22, amended: for every valid conversation with no tool call, the       *)
(* rendered text is the system turn followed by the user and assistant     *)
(* turns, alternating and in the original message order; when the last     *)
(* message is a user message the text ends with its closed user turn and   *)
(* an open assistant turn header, and when the last message is an          *)
(* assistant message it ends with that assistant turn left open, its text  *)
(* in place and no end-of-turn marker behind it.  Before a final user      *)
(* message all turns are there when the system turn and the earlier turns  *)
(* together take fewer tokens than the window of make_context.             *)
C22_EndsWithHeaderOrOpenTurn ==
    (chat_pc = "rendered" /\ NoToolCall)
    => /\ UserTurnsInOrder
       /\ AssistantTurnsInOrder
       /\ decode(rendered[1].input_ids) = rendered[1].prompt
       /\ IF request.messages[Len(request.messages)].role = "user"
          THEN Len(encode(SystemTurn \o ClosedTurns(Len(history)), TRUE))
                   < max_window_size
               => rendered[1].prompt =
                      SystemTurn \o ClosedTurns(Len(history))
                      \o UserTurn(query) \o OpenAssistantHeader
          ELSE /\ query = TEXT_COMPLETION_CMD
               /\ history # <<>>
               /\ rendered[1].prompt =
                      SystemTurn \o ClosedTurns(Len(history) - 1)
                      \o UserTurn(history[Len(history)][1])
                      \o OpenAssistantHeader \o history[Len(history)][2]

\* a conversation of two user and two assistant messages, ending with an
\* assistant message, was rendered with its last turn left open
C22_Witness ==
    /\ chat_pc = "rendered"
    /\ NoToolCall
    /\ Len(request.messages) = 4
    /\ Len(history) = 2
    /\ request.messages[1].content # request.messages[3].content
    /\ EndsWith(rendered[1].prompt,
                OpenAssistantHeader \o Chars("partial answer"))

-----------------------------------------------------------------------------
\* make_context has returned
Returned == chat_pc = "returned"

\* the tokens of the system turn of the call
SystemTokensOfCall ==
    <<im_start_id>> \o encode(Chars("system\n") \o call.system, FALSE)
    \o <<im_end_id>>

\* the tokens of one closed history turn
ClosedTurnTokens(turn) ==
    <<CharToken(NL), im_start_id>> \o encode(Chars("user\n") \o turn[1], FALSE)
    \o <<im_end_id, CharToken(NL), im_start_id>>
    \o encode(Chars("assistant\n") \o turn[2], FALSE) \o <<im_end_id>>

\* the tokens of the newest k turns of the history of the call, in the
\* order of the history
RECURSIVE NewestTokens(_)
NewestTokens(k) ==
    IF k = 0 THEN <<>>
    ELSE ClosedTurnTokens(call.history[Len(call.history) - k + 1])
         \o NewestTokens(k - 1)

\* the tokens of the whole query turn and the open assistant header
QueryTailTokens ==
    <<CharToken(NL), im_start_id>> \o encode(Chars("user\n") \o call.query, FALSE)
    \o <<im_end_id, CharToken(NL), im_start_id>>
    \o encode(Chars("assistant\n"), FALSE)

\* the returned tokens are the system turn, the newest k turns of the
\* history in their order, and the query turn
KeepsNewest(k) ==
    rendered[1].input_ids =
        SystemTokensOfCall \o NewestTokens(k) \o QueryTailTokens

\* the tokens of the system turn and of the newest k turns
KeptSize(k) == Len(SystemTokensOfCall) + Len(NewestTokens(k))

(* C23 as stated: for every history and budget, the kept turns are a       *)
(* contiguous newest-first suffix of the history in original order, and    *)
(* the system tokens plus the kept history tokens are strictly fewer than  *)
(* max_window_size; a turn that would make the total equal to the budget   *)
(* is excluded.                                                            *)
C23_KeptBelowWindow ==
    Returned
    => \E k \in 0..Len(call.history) :
          /\ KeepsNewest(k)
          /\ KeptSize(k) < call.max_window_size

(* C23, amended: the kept turns are a contiguous newest-first suffix of    *)
(* the history in original order; when at least one turn is kept, the      *)
(* system tokens plus the kept history tokens are strictly fewer than      *)
(* max_window_size; and the newest turn left out, if any, would have made  *)
(* the total equal to the budget or larger.                                *)
C23_KeptSuffixBelowWindow ==
    Returned
    => \E k \in 0..Len(call.history) :
          /\ KeepsNewest(k)
          /\ k > 0 => KeptSize(k) < call.max_window_size
          /\ k < Len(call.history) => KeptSize(k + 1) >= call.max_window_size

\* the newest of three turns was kept and the next one was left out because
\* it would have made the total equal to the window
C23_Witness ==
    /\ Returned
    /\ Len(call.history) = 3
    /\ KeepsNewest(1)
    /\ KeptSize(2) = call.max_window_size

-----------------------------------------------------------------------------
(* C24: for every budget and history, the token sequence make_context      *)
(* returns ends with the complete query turn followed by the open          *)
(* assistant header, and so does the text; the query is never dropped or   *)
(* shortened, also when the system turn and the query turn alone reach or  *)
(* exceed the budget.                                                      *)
C24_QueryTurnNeverTruncated ==
    Returned
    => /\ EndsWith(rendered[1].input_ids, QueryTailTokens)
       /\ EndsWith(rendered[1].prompt,
                   UserTurn(call.query) \o OpenAssistantHeader)

\* a call returned whose system turn and query turn alone exceed the
\* window: the history was dropped, the query turn is there
C24_Witness ==
    /\ Returned
    /\ call.history # <<>>
    /\ call.max_window_size > 0
    /\ Len(SystemTokensOfCall) + Len(QueryTailTokens) > call.max_window_size
    /\ rendered[1].input_ids = SystemTokensOfCall \o QueryTailTokens

-----------------------------------------------------------------------------
\* the text of the newest k turns of the history of the call, in the order
\* of the history
RECURSIVE NewestText(_)
NewestText(k) ==
    IF k = 0 THEN <<>>
    ELSE UserTurn(call.history[Len(call.history) - k + 1][1])
         \o AssistantTurn(call.history[Len(call.history) - k + 1][2])
         \o NewestText(k - 1)

\* the returned text is the system turn, the newest k turns of the history
\* and the query turn
KeepsNewestText(k) ==
    rendered[1].prompt =
        im_start \o Chars("system\n") \o call.system \o im_end
        \o NewestText(k) \o UserTurn(call.query) \o OpenAssistantHeader

(* C25: for every query, history and budget, decoding the token ids        *)
(* make_context returns gives the returned text exactly (the tokenizer     *)
(* being lossless), and text and token ids are built segment by segment    *)
(* from the same kept turns: both hold the system turn, the same newest k  *)
(* turns and the query turn, each segment encoded on its own.              *)
C25_TokensDecodeToText ==
    Returned
    => /\ decode(rendered[1].input_ids) = rendered[1].prompt
       /\ \E k \in 0..Len(call.history) : KeepsNewest(k) /\ KeepsNewestText(k)

\* two different turns were kept, one of them holding the text of a turn
\* marker, so that the returned tokens differ from those of the returned
\* text encoded as a whole
C25_Witness ==
    /\ Returned
    /\ Len(call.history) = 3
    /\ KeepsNewest(2)
    /\ call.history[2] # call.history[3]
    /\ rendered[1].input_ids # encode(rendered[1].prompt, TRUE)
    /\ decode(rendered[1].input_ids) = rendered[1].prompt

-----------------------------------------------------------------------------
(* C26: on the render_chat path, the budget the history truncation is      *)
(* compared against is the maximum context-window budget the renderer was  *)
(* configured with, for every value of that budget: the prompt is the one  *)
(* make_context builds with that budget as its window.                     *)
C26_TruncatesAtConfiguredBudget ==
    (chat_pc = "rendered" /\ rendered[1].path = "make_context")
    => rendered[1].input_ids =
           make_context(query, history, default_system,
                        renderer_params.max_seq_len).context_tokens

-----------------------------------------------------------------------------
\* the call of the assistant message of the conversation
FoldedCall == request.messages[2].function_call[1]

\* the assistant text the call (and its result) was folded into
FoldedText == normalized[2].content

\* what _parse_function_response finds in the folded text is the name and
\* the arguments of the call
RecoversCall ==
    \E parsed \in {parse_function_response(FoldedText)} :
        /\ parsed # <<>>
        /\ parsed[1].name = FoldedCall.name
        /\ parsed[1].arguments = FoldedCall.arguments

\* the text holds one of the markers _parse_function_response looks for
HoldsMarker(text) ==
    \/ Contains(text, NlActionTag)
    \/ Contains(text, NlActionInputTag)
    \/ Contains(text, NlObservationTag)

\* the text has no whitespace at either end
IsStripped(text) ==
    text = <<>> \/ (text[1] \notin Whitespace /\ text[Len(text)] \notin Whitespace)

\* the texts folded in can be told apart again: the name is not empty,
\* name and arguments have no whitespace at their ends, and neither they
\* nor the function result hold a marker
Separable ==
    /\ FoldedCall.name # <<>>
    /\ IsStripped(FoldedCall.name)
    /\ IsStripped(FoldedCall.arguments)
    /\ ~HoldsMarker(FoldedCall.name)
    /\ ~HoldsMarker(FoldedCall.arguments)
    /\ \A n \in 3..Len(request.messages) :
          ~HoldsMarker(request.messages[n].content)

(* C27 as stated: for every function name and arguments text, folding an   *)
(* assistant function call (optionally followed by its function result)    *)
(* into assistant text with parse_messages and applying                    *)
(* _parse_function_response to that text recovers exactly the same name    *)
(* and arguments.                                                          *)
C27_FoldThenParseRecoversCall ==
    Accepted => RecoversCall

(* C27, amended: the same, for every non-empty function name and every     *)
(* arguments text that have no whitespace at their ends and hold none of   *)
(* the markers "\nAction:", "\nAction Input:", "\nObservation:", the        *)
(* function result holding none of them either.                            *)
C27_FoldThenParseRecoversSeparableCall ==
    (ParseEnded /\ Separable) => (Accepted /\ RecoversCall)

\* a call with empty content, its arguments on two lines, was folded with
\* its result and found again
C27_Witness ==
    /\ Accepted
    /\ Separable
    /\ Len(request.messages) = 3
    /\ FoldedCall.arguments = Chars("{\n}")
    /\ request.messages[2].content = <<>>
    /\ RecoversCall

-----------------------------------------------------------------------------
\* the caller's requests, message lists and function lists, are as the
\* caller built them, also while a call works on one of them
CallerObjectsUnchanged ==
    /\ caller.objects = caller.submitted
    /\ chat_pc \in {"request", "parsed", "rendered", "raised"}
       => request = caller.submitted[caller.slot]

\* the history parse_messages returned is still the one make_context or
\* text_complete_last_message was given
HistoryUnchanged ==
    chat_pc = "rendered"
    => history = parse_messages(caller.submitted[caller.slot].messages,
                                caller.submitted[caller.slot].functions).history

\* two calls with the same request got the same result, whatever was
\* rendered between them
SameRequestSameOutput ==
    \A i, j \in 1..Len(caller.outputs) :
        caller.submitted[caller.outputs[i].slot]
            = caller.submitted[caller.outputs[j].slot]
        => /\ caller.outputs[i].raised = caller.outputs[j].raised
           /\ caller.outputs[i].rendered = caller.outputs[j].rendered

-----------------------------------------------------------------------------
(* render_response_stream: two requests served by one renderer instance.   *)
(* Each call of the async generator function makes a generator with its    *)
(* own locals (its frame); the event loop runs one of them at a time and    *)
(* switches between them where they await the next generation step.         *)

\* the generation steps modelled per request when two are served
MaxPairSteps == 2

\* the tokens one generation step adds
PairChunks == {<<"Hello">>, <<"SP">>, <<"Hello", "NLAction", "Colon">>,
               <<"Name", "ActionInput", "Args", "NL">>}

\* the two requests
Requests == {1, 2}

\* lines 320-361: the body of the async for, run on the locals in `frame`
UpdateFrame(frame, chunk, step_finished, supplied) ==
    LET out == [output_ids    |-> frame.output.output_ids \o chunk,
                finished      |-> step_finished,
                finish_reason |-> supplied]
        processed_output ==
            process_output_ids_tensor(input_token_length, out.output_ids,
                                      FinishedArgument(out.finished),
                                      out.finish_reason, stop_words_list)
        text == Strip(processed_output.output_str, Whitespace)
        length == Len(processed_output.output_str)
        announced == IF AnnounceRole(frame.output_token_length)
                     THEN <<RoleEvent(frame.index)>> ELSE <<>>
        stepped == [frame EXCEPT
                      !.output = out,
                      !.nsteps = @ + 1,
                      !.output_string = text,
                      !.output_length = length,
                      !.finish_reason = processed_output.finish_reason,
                      !.output_token_length =
                          processed_output.output_token_length,
                      !.events = @ \o announced]
    IN  IF StartsFunctionCall(text)
        THEN [stepped EXCEPT !.generating_function_call = TRUE]
        ELSE IF KeepsBuffering(frame.generating_function_call)
        THEN stepped
        ELSE IF HasNewContent(length, frame.responded_length)
        THEN [stepped EXCEPT
                !.responded_string = SliceTo(text, DeltaEnd(length)),
                !.responded_length = Len(SliceTo(text, DeltaEnd(length))),
                !.events = @ \o
                    <<ContentEvent(frame.index,
                                   Slice(text, frame.responded_length,
                                         DeltaEnd(length)),
                                   processed_output.output_token_length)>>]
        ELSE stepped

\* lines 363-418: the code after the async for, run on the locals in `frame`
EndFrame(frame) ==
    LET function_message ==
            IF frame.generating_function_call
            THEN parse_function_response(
                     SliceFrom(frame.output_string, frame.responded_length))
            ELSE <<>>
        parsed == function_message # <<>>
        reason1 == IF parsed THEN CallReason(frame.finish_reason)
                   ELSE frame.finish_reason
        called == IF parsed
                  THEN <<FunctionEvent(frame.index, function_message[1],
                                       reason1, frame.output_token_length)>>
                  ELSE <<>>
        reason2 == DefaultReason(reason1)
        resp_length ==
            IF parsed
            THEN RespondedAfterCall(frame.responded_length,
                                    frame.output_length)
            ELSE frame.responded_length
        flush == HasUnflushed(resp_length, frame.output_length)
        index2 == IF flush THEN frame.index + 1 ELSE frame.index
    IN  [frame EXCEPT
           !.pc = "done",
           !.finish_reason = reason2,
           !.responded_string =
               IF parsed THEN frame.output_string ELSE @,
           !.responded_length = resp_length,
           !.index = index2,
           !.events = @ \o called \o
               (IF flush
                THEN <<ContentEvent(index2,
                                    SliceFrom(frame.output_string, resp_length),
                                    frame.output_token_length)>>
                ELSE <<>>) \o
               <<TerminalEvent(index2 + 1, reason2,
                               frame.output_token_length)>>]

\* the locals of the stream in the variables of the one-request model
Frame ==
    [output |-> output, nsteps |-> nsteps, pc |-> pc, index |-> index,
     output_string |-> output_string, output_length |-> output_length,
     responded_string |-> responded_string,
     responded_length |-> responded_length,
     output_token_length |-> output_token_length,
     finish_reason |-> finish_reason,
     generating_function_call |-> generating_function_call,
     events |-> events]

\* every step of the one-request model is UpdateFrame or EndFrame of its
\* locals
FrameFollowsStream ==
    [][\/ \E chunk \in Chunks, supplied \in {None, "length"} :
              \/ Frame' = UpdateFrame(Frame, chunk, FALSE, None)
              \/ Frame' = UpdateFrame(Frame, chunk, TRUE, supplied)
       \/ Frame' = EndFrame(Frame)]_vars

\* the stream state kept in attributes of the renderer, where the generator
\* that resumes finds what the generator that ran last left
ResumedFrame_OnInstance(own, last) ==
    [own EXCEPT !.output_string = last.output_string,
                !.responded_length = last.responded_length,
                !.generating_function_call = last.generating_function_call,
                !.finish_reason = last.finish_reason]

\* lines 311-318: the stream state is in locals of the generator: when it
\* resumes it finds them as it left them, whatever ran in between (`last`
\* is the frame of the generator that ran last)
ResumedFrame(own, last) == own

\* two requests arrive; neither generator has run
PairInit ==
    /\ LocalsInit
    /\ NoRequest
    /\ streams = [frames  |-> [r \in Requests |-> InitFrame],
                  last    |-> InitFrame,
                  steps   |-> [r \in Requests |-> <<>>],
                  ended   |-> [r \in Requests |-> FALSE],
                  running |-> 0]

\* the event loop resumes the generator of request r with the next step of
\* its generation loop
PairUpdate(r, chunk, step_finished, supplied) ==
    /\ r \in DOMAIN streams.frames
    /\ streams.frames[r].pc = "loop"
    /\ ~streams.frames[r].output.finished
    /\ streams.frames[r].nsteps < MaxPairSteps
    /\ \E frame \in {UpdateFrame(ResumedFrame(streams.frames[r], streams.last),
                                 chunk, step_finished, supplied)} :
          streams' = [streams EXCEPT
                        !.frames[r] = frame,
                        !.last = frame,
                        !.steps[r] = @ \o <<<<chunk, step_finished, supplied>>>>,
                        !.running = r]
    /\ UNCHANGED locals
    /\ UNCHANGED chat_vars

\* the generation loop of request r is exhausted and its generator runs to
\* its end
PairStreamEnd(r) ==
    /\ r \in DOMAIN streams.frames
    /\ streams.frames[r].pc = "loop"
    /\ \E frame \in {EndFrame(ResumedFrame(streams.frames[r], streams.last))} :
          streams' = [streams EXCEPT
                        !.frames[r] = frame,
                        !.last = frame,
                        !.ended[r] = TRUE,
                        !.running = r]
    /\ UNCHANGED locals
    /\ UNCHANGED chat_vars

\* a step of one of the two requests that is not its last one
PairStep == \E r \in Requests, chunk \in PairChunks :
                PairUpdate(r, chunk, FALSE, None)

\* the last step of one of the two requests
PairLastStep == \E r \in Requests, chunk \in PairChunks,
                   supplied \in {None, "length"} :
                    PairUpdate(r, chunk, TRUE, supplied)

\* the end of the stream of one of the two requests
PairEnd == \E r \in Requests : PairStreamEnd(r)

PairNext == PairStep \/ PairLastStep \/ PairEnd

PairSpec == PairInit /\ [][PairNext]_vars

\* lines 311-418: the locals of a generator that is the only one the
\* renderer serves, after the generation steps `steps` and, if `ended`, the
\* end of the generation loop
RECURSIVE StepsAlone(_)
StepsAlone(steps) ==
    IF steps = <<>> THEN InitFrame
    ELSE LET step == steps[Len(steps)]
             before == {StepsAlone(SubSeq(steps, 1, Len(steps) - 1))}
         IN  CHOOSE after \in {UpdateFrame(frame, step[1], step[2], step[3]) :
                                  frame \in before} : TRUE

RunAlone(steps, ended) ==
    CHOOSE after \in {IF ended THEN EndFrame(frame) ELSE frame :
                         frame \in {StepsAlone(steps)}} : TRUE

-----------------------------------------------------------------------------
(* The dummy-thought preamble of assistant messages without a call.        *)

\* the last message of a non-empty list
LastOf(messages) == messages[Len(messages)]

\* the p-th message the loop takes is an assistant message without a
\* function call, and the loop accepts it
PlainAssistantAt(p) ==
    /\ RawMessages[p].role = "assistant"
    /\ RawMessages[p].function_call = <<>>
    /\ LoopState(p - 1).raised = <<>>
    /\ LoopState(p - 1).messages # <<>>

\* the previous normalized message when the loop takes its p-th message
PreviousNormalized(p) == LastOf(LoopState(p - 1).messages)

\* the text the p-th iteration of the loop put into the normalized list: the
\* content of the turn it opened, or what it added to the assistant turn
\* before it
AddedText(p) ==
    LET after == LastOf(LoopState(p).messages).content
    IN  IF PreviousNormalized(p).role = "user"
        THEN after
        ELSE SubSeq(after, Len(PreviousNormalized(p).content) + 1, Len(after))

\* a content as it stands in the normalized list: trimmed where it opens a
\* turn, as it is where it continues the assistant turn before it
Placed(p, text) ==
    IF PreviousNormalized(p).role = "user"
    THEN RStrip(LStrip(text, {NL}), Whitespace) ELSE text

\* the previous normalized message holds a character of U+4E00..U+9FFF
PreviousHasChinese(p) ==
    \E i \in 1..Len(PreviousNormalized(p).content) :
        PreviousNormalized(p).content[i] \in CJK

\* C30: an assistant message without a function call enters the normalized
\* list with the Chinese dummy thought before its content when functions
\* is non-empty and the previous normalized message holds a character of
\* U+4E00..U+9FFF, with the English dummy thought when functions is
\* non-empty and it holds none, and with no preamble when functions is
\* empty
C30_DummyThoughtFollowsPreviousMessage ==
    ParseEnded =>
        \A p \in 1..Len(RawMessages) :
            PlainAssistantAt(p) =>
                /\ LoopState(p).raised = <<>>
                /\ AddedText(p) =
                     Placed(p,
                            (IF request.functions = <<>> THEN <<>>
                             ELSE IF PreviousHasChinese(p)
                             THEN DUMMY_THOUGHT("zh")
                             ELSE DUMMY_THOUGHT("en"))
                            \o RawMessages[p].content)

\* a request with functions in which one assistant message without a call
\* follows Chinese text and another follows English text
C30_Witness ==
    /\ Accepted
    /\ request.functions # <<>>
    /\ \E p \in 1..Len(RawMessages) :
           PlainAssistantAt(p) /\ PreviousHasChinese(p)
    /\ \E p \in 1..Len(RawMessages) :
           PlainAssistantAt(p) /\ ~PreviousHasChinese(p)

-----------------------------------------------------------------------------
(* The shape of the normalized list.                                       *)

\* the list after the whole normalization loop
Normalized == LoopState(Len(RawMessages)).messages

\* the p-th message the loop takes is an assistant message, accepted, that
\* follows an assistant message of the normalized list
AssistantAfterAssistant(p) ==
    /\ RawMessages[p].role = "assistant"
    /\ LoopState(p - 1).raised = <<>>
    /\ LoopState(p - 1).messages # <<>>
    /\ PreviousNormalized(p).role = "assistant"

\* C31: when the normalization loop ends without an error the normalized
\* list holds user and assistant messages only, its first message is a user
\* message and no two assistant messages are adjacent; an assistant message
\* taken after an assistant message adds its text to that message and the
\* list is no longer for it
C31_NormalizedListShape ==
    (ParseEnded /\ LoopFinished) =>
        /\ Normalized # <<>>
        /\ \A n \in 1..Len(Normalized) :
               Normalized[n].role \in {"user", "assistant"}
        /\ Normalized[1].role = "user"
        /\ \A n \in 1..(Len(Normalized) - 1) :
               ~(Normalized[n].role = "assistant"
                 /\ Normalized[n + 1].role = "assistant")
        /\ Accepted => normalized = Normalized
        /\ \A p \in 1..Len(RawMessages) :
               AssistantAfterAssistant(p) =>
                   /\ Len(LoopState(p).messages) = Len(LoopState(p - 1).messages)
                   /\ LastOf(LoopState(p).messages).role = "assistant"
                   /\ StartsWith(LastOf(LoopState(p).messages).content,
                                 PreviousNormalized(p).content)
                   /\ \A n \in 1..(Len(LoopState(p).messages) - 1) :
                          LoopState(p).messages[n] = LoopState(p - 1).messages[n]

\* an accepted request in which an assistant message followed an assistant
\* message
C31_Witness ==
    /\ Accepted
    /\ LoopFinished
    /\ \E p \in 1..Len(RawMessages) : AssistantAfterAssistant(p)

-----------------------------------------------------------------------------
(* _parse_function_response called on its own, on texts put together from  *)
(* the three markers, text and whitespace.                                  *)

\* the pieces a response is put together from
MaxPieces == 5

Pieces == {Chars("f"), Chars(" "), <<NL>>, NlActionTag, NlActionInputTag,
           NlObservationTag}

\* the responses of the model
Responses == {Flatten(ps) : ps \in UNION {[1..n -> Pieces] : n \in 0..MaxPieces}}

\* _parse_function_response(response) is called
ParseResponseInit ==
    /\ StreamInit
    /\ request = [messages |-> <<>>, functions |-> <<>>]
    /\ chat_pc = "call"
    /\ normalized = <<>>
    /\ query = <<>>
    /\ history = <<>>
    /\ raised = <<>>
    /\ rendered = <<>>
    /\ renderer_params = [max_seq_len |-> max_seq_len]
    /\ stop_words_list = <<>>
    /\ result = <<>>
    /\ call \in [response : Responses]
    /\ caller = NoCaller

\* lines 263-281: the call returns None or a DeltaMessage
ParseFunctionResponse ==
    /\ chat_pc = "call"
    /\ result' = parse_function_response(call.response)
    /\ chat_pc' = "returned"
    /\ UNCHANGED <<request, normalized, query, history, raised, rendered,
                   renderer_params, stop_words_list, call, caller>>
    /\ UNCHANGED stream_vars

ParseResponseSpec == ParseResponseInit /\ [][ParseFunctionResponse]_vars

\* i is the index of the last occurrence of marker in text, -1 when it has
\* none
IsLastIndexOf(text, marker, i) ==
    /\ i >= 0 => MatchAt(text, marker, i)
    /\ \A n \in (i + 1)..Len(text) : ~MatchAt(text, marker, n)

\* the text of the response from the end of the marker at j to the last
\* newline+'Observation:' behind it, to the end of the response when none
\* is behind it
ArgumentsText(response, j) ==
    LET from == j + Len(NlActionInputTag)
        behind == {k \in from..Len(response) :
                      MatchAt(response, NlObservationTag, k)}
    IN  IF behind = {} THEN SliceFrom(response, from)
        ELSE Slice(response, from,
                   CHOOSE k \in behind : \A n \in behind : n <= k)

\* C32: _parse_function_response returns a function call exactly when the
\* last newline+'Action:' (at i) and the last newline+'Action Input:' (at
\* j) satisfy 0 <= i < j and the trimmed text between them is not empty;
\* its name is that trimmed text, its arguments the trimmed text from the
\* second marker to the last newline+'Observation:' behind it (to the end
\* of the text when there is none), its content the text before i
C32_CallReturnedIffMarkersInOrder ==
    Returned =>
        \A i, j \in -1..Len(call.response) :
            (/\ IsLastIndexOf(call.response, NlActionTag, i)
             /\ IsLastIndexOf(call.response, NlActionInputTag, j))
            => IF /\ 0 <= i
                  /\ i < j
                  /\ Strip(Slice(call.response, i + Len(NlActionTag), j),
                           Whitespace) # <<>>
               THEN result =
                      <<[content   |-> SliceTo(call.response, i),
                         name      |-> Strip(Slice(call.response,
                                                   i + Len(NlActionTag), j),
                                             Whitespace),
                         arguments |-> Strip(ArgumentsText(call.response, j),
                                             Whitespace)]>>
               ELSE result = <<>>

\* a call was returned from a response with text before the first marker
\* and no newline+'Observation:' behind the arguments
C32_Witness ==
    /\ Returned
    /\ result # <<>>
    /\ result[1].content # <<>>
    /\ result[1].arguments # <<>>
    /\ ~Contains(call.response, NlObservationTag)

-----------------------------------------------------------------------------
(* _process_output_ids_tensor called on its own, on token sequences and    *)
(* stop-word lists of the model.                                            *)

\* the tokens generated in one sequence
MaxGenerated == 4

\* the rendered prompts: without and with the end-of-sequence token
Prompts == {<<"P">>, <<"P", eos_token_id>>, <<eos_token_id, "P", "P">>}

\* the tokens the model generates: two letters, the replacement character
\* and the end-of-sequence token
GeneratedTokens ==
    {CharToken("a"), CharToken("b"), CharToken(FFFD), eos_token_id}

\* self.stop_words_list of the renderer
StopWordLists == {<<>>, <<Chars("ab")>>, <<Chars("b"), Chars("a")>>}

\* the token sequences of a step: the prompt and what was generated
GeneratedSequences == UNION {[1..n -> GeneratedTokens] : n \in 0..MaxGenerated}

\* _process_output_ids_tensor(input_length, output_ids_tensor) is called
ProcessInit ==
    /\ StreamInit
    /\ request = [messages |-> <<>>, functions |-> <<>>]
    /\ chat_pc = "call"
    /\ normalized = <<>>
    /\ query = <<>>
    /\ history = <<>>
    /\ raised = <<>>
    /\ rendered = <<>>
    /\ renderer_params = [max_seq_len |-> max_seq_len]
    /\ stop_words_list \in StopWordLists
    /\ result = <<>>
    /\ \E prompt \in Prompts, generated \in GeneratedSequences :
          call = [input_length      |-> Len(prompt),
                  output_ids_tensor |-> prompt \o generated]
    /\ caller = NoCaller

\* lines 286-303: the call returns a ProcessedOutput
ProcessOutputIds ==
    /\ chat_pc = "call"
    /\ result' = <<process_output_ids_tensor(call.input_length,
                                             call.output_ids_tensor,
                                             FALSE, None,
                                             stop_words_list)>>
    /\ chat_pc' = "returned"
    /\ UNCHANGED <<request, normalized, query, history, raised, rendered,
                   renderer_params, stop_words_list, call, caller>>
    /\ UNCHANGED stream_vars

ProcessSpec == ProcessInit /\ [][ProcessOutputIds]_vars

\* the text the call returned
OutputStr == result[1].output_str

\* C33: the text _process_output_ids_tensor returns holds no occurrence of
\* a configured stop word and neither starts nor ends with the replacement
\* character U+FFFD
C33_NoStopWordNoReplacementAtEnds ==
    Returned =>
        /\ \A n \in 1..Len(stop_words_list) :
               ~Contains(OutputStr, stop_words_list[n])
        /\ ~StartsWith(OutputStr, <<FFFD>>)
        /\ ~EndsWith(OutputStr, <<FFFD>>)

-----------------------------------------------------------------------------
(* render_response_stream on a renderer with a stop word: the text         *)
(* "Observation:", which the model writes in two generation steps.          *)

\* the tokens of "Observation", one per character
ObservationWord ==
    LET word == Chars("Observation")
    IN  [n \in 1..Len(word) |-> CharToken(word[n])]

\* the tokens one generation step adds
StopChunks == {<<"Hello">>, ObservationWord, <<"Colon">>,
               <<"Hello", "NLAction", "Colon">>,
               <<"Name", "ActionInput", "Args", "NL">>}

\* a response stream that has not started, on a renderer without stop
\* words or with the stop word "Observation:"
StopInit ==
    /\ LocalsInit
    /\ streams = NoStreams
    /\ request = [messages |-> <<>>, functions |-> <<>>]
    /\ chat_pc = "idle"
    /\ normalized = <<>>
    /\ query = <<>>
    /\ history = <<>>
    /\ raised = <<>>
    /\ rendered = <<>>
    /\ renderer_params = [max_seq_len |-> max_seq_len]
    /\ stop_words_list \in {<<>>, <<Tail(NlObservationTag)>>}
    /\ result = <<>>
    /\ call = <<>>
    /\ caller = NoCaller

\* a step that is not the last one
StopStep == \E chunk \in StopChunks : Update(chunk, FALSE, None)

\* the last step
StopLastStep == \E chunk \in StopChunks, supplied \in {None, "length"} :
                    Update(chunk, TRUE, supplied)

StopNext == StopStep \/ StopLastStep \/ StreamEnd

StopSpec == StopInit /\ [][StopNext]_vars

\* C34: over the updates of one request, whose token sequence only grows,
\* responded_length never decreases and the content sent to the client so
\* far is a prefix of the output_string of the update
C34_DeliveredIsPrefixOfOutput ==
    [][nsteps' = nsteps + 1
       => /\ responded_length' >= responded_length
          /\ StartsWith(output_string', DeliveredText')]_vars

-----------------------------------------------------------------------------
(* The continuation path of render_chat.                                   *)

\* render_chat took the continuation path and returned
Continued ==
    chat_pc = "rendered" /\ rendered[1].path = "text_complete_last_message"

\* a text as a turn holds it: without newlines in front and whitespace
\* behind
TrimmedTurn(text) == RStrip(LStrip(text, {NL}), Whitespace)

\* the first n turns of the history as closed turns, oldest first
RECURSIVE HistoryTurns(_)
HistoryTurns(n) ==
    IF n = 0 THEN <<>>
    ELSE HistoryTurns(n - 1) \o UserTurn(TrimmedTurn(history[n][1]))
         \o AssistantTurn(TrimmedTurn(history[n][2]))

\* C35: render_chat takes the continuation path exactly when the query is
\* the text-completion value; the history is then not empty and the prompt
\* is the default system turn, closed, and every turn of the history in
\* order, the last assistant turn without its end-of-turn marker, so that
\* the prompt ends with the last assistant text; its tokens are the
\* encoding of that text
C35_ContinuationKeepsEveryTurn ==
    /\ chat_pc = "rendered" =>
           (rendered[1].path = "text_complete_last_message"
            <=> query = TEXT_COMPLETION_CMD)
    /\ Continued =>
           /\ history # <<>>
           /\ rendered[1].prompt \o im_end = SystemTurn \o HistoryTurns(Len(history))
           /\ EndsWith(rendered[1].prompt, TrimmedTurn(history[Len(history)][2]))
           /\ ~EndsWith(rendered[1].prompt, im_end)
           /\ rendered[1].input_ids = encode(rendered[1].prompt, TRUE)

\* a conversation of two turns with different user texts, the last message
\* an assistant message, was rendered by continuation
C35_Witness ==
    /\ Continued
    /\ Len(history) = 2
    /\ history[1][1] # history[2][1]
    /\ history[2][2] # <<>>

-----------------------------------------------------------------------------
\* the tokens of the call at positions >= input_length, without the
\* end-of-sequence tokens
GeneratedOfCall ==
    WithoutEos(SliceFrom(call.output_ids_tensor, call.input_length))

\* C36: the text and the token count _process_output_ids_tensor returns are
\* those of the tokens at positions >= input_length of the sequence, the
\* end-of-sequence tokens removed: no token of the prompt is in them and no
\* generated token other than end-of-sequence is missing, whatever tokens
\* the prompt holds
C36_OutputIsTheGeneratedTokens ==
    Returned =>
        /\ result[1].output_token_length = Len(GeneratedOfCall)
        /\ OutputStr =
               StripStopWords(Strip(decode(GeneratedOfCall), {FFFD}),
                              stop_words_list)

-----------------------------------------------------------------------------
(* The system text after the history loop.                                 *)

\* the system text parse_messages starts the history loop with
SystemText ==
    FoldTools(ExtractSystem(request.messages), request.functions)

\* the last normalized message is a user message: the query
LastIsUser == LastOf(Normalized).role = "user"

\* the normalized messages the history loop runs on
HistoryMessages ==
    IF LastIsUser THEN SubSeq(Normalized, 1, Len(Normalized) - 1)
    ELSE Normalized

\* the history loop on them: the error, the history and the system text it
\* ends with
Extracted ==
    HistoryFrom(HistoryMessages, 0,
                [raised |-> <<>>, history |-> <<>>, system |-> SystemText])

\* the system text is not empty when the history loop has ended without an
\* error
SystemLeft ==
    /\ ParseEnded
    /\ LoopFinished
    /\ Extracted.raised = <<>>
    /\ Extracted.system # <<>>

\* C37: the assertion of line 258 fails for no message list and function
\* list: when the system text is not empty after the history loop has ended
\* without an error, the history is empty and the query is the text of the
\* last user message, which the system text is put in front of
C37_AssertionNeverFails ==
    /\ ParseEnded => (raised = <<>> \/ raised[1].kind # "AssertionError")
    /\ SystemLeft =>
           /\ Accepted
           /\ history = <<>>
           /\ LastIsUser
           /\ query # TEXT_COMPLETION_CMD
           /\ query = SystemText \o Chars("\n\nQuestion: ")
                      \o LastOf(Normalized).content

\* a system message of its own and a single user message: the system text is
\* left after the history loop and goes in front of the query
C37_Witness ==
    /\ SystemLeft
    /\ request.messages[1].role = "system"
    /\ request.functions = <<>>
    /\ Len(request.messages) = 2
    /\ query = Chars("S\n\nQuestion: hi")

-----------------------------------------------------------------------------
\* the events the step from the unprimed to the primed state yielded
NewEvents == SubSeq(events', Len(events) + 1, Len(events'))

\* the step is the end of the stream: the code after the async for
IsEndStep == pc = "loop" /\ pc' = "done"

\* C38: a function-call delta is yielded only by the code after the loop,
\* and when it is, the terminal delta is the only event after it: that
\* code yields the function-call delta and the terminal delta and no
\* content delta, so a stream never holds a function-call delta together
\* with a final flush
C38_NothingAfterFunctionCall ==
    [][/\ IsUpdateStep =>
              \A k \in 1..Len(NewEvents) : ~IsFunctionEvent(NewEvents[k])
       /\ (IsEndStep /\ \E k \in 1..Len(NewEvents) : IsFunctionEvent(NewEvents[k]))
              => /\ Len(NewEvents) = 2
                 /\ IsFunctionEvent(NewEvents[1])
                 /\ IsTerminalEvent(NewEvents[2])
                 /\ events'[Len(events')] = NewEvents[2]]_vars

\* a stream that delivered content, latched and ended with a function-call
\* delta
C38_Witness ==
    /\ pc = "done"
    /\ FunctionEvents # {}
    /\ ContentDeltas # {}
    /\ output_length > Len(output_string)

-----------------------------------------------------------------------------
\* C39: every event of a stream, the role announcement, the content
\* deltas, the function-call delta, the final flush and the terminal
\* delta, has the choice index 0
C39_EveryEventHasChoiceIndexZero ==
    \A k \in 1..Len(events) : events[k].index = 0

=============================================================================
